---- MODULE Spec2Model ----
(***************************************************************************)
(* Region growing and labelling of a triangulated surface (regions.py)     *)
(* driven by the landmark / geodesic dictionaries of the main window       *)
(* (main.py).  Python None is modelled by the record None; a Python set of *)
(* vertex ids by [none |-> FALSE, val |-> S].                              *)
(***************************************************************************)
EXTENDS Integers, Sequences, FiniteSets, TLC

VARIABLES landmarks, geodesic_lines, last_segment_ids, last_segment_error,
          point_data, call, dirty, edits, set_order, flood, trial

vars == <<landmarks, geodesic_lines, last_segment_ids, last_segment_error,
          point_data, call, dirty, edits, set_order, flood, trial>>

Range(s) == {s[i] : i \in DOMAIN s}

SetMin(S) == CHOOSE x \in S : \A y \in S : x <= y

SetMax(S) == CHOOSE x \in S : \A y \in S : x >= y

None == [none |-> TRUE, val |-> {}]

Some(S) == [none |-> FALSE, val |-> S]

NoVertex == 0 - 1

(***************************************************************************)
(* A dict restricted to the keys in S, built key by key.                   *)
(***************************************************************************)
RECURSIVE Restrict(_, _)
Restrict(f, S) ==
    IF S = {} THEN << >>
    ELSE LET k == CHOOSE x \in S : TRUE
         IN  (k :> f[k]) @@ Restrict(f, S \ {k})

(***************************************************************************)
(* The surface: a flat sheet carrying the four pulmonary-vein corners      *)
(* A, B, C, D, the mitral ring E-F-H-I, one interior vertex per wall, one  *)
(* vertex beyond the ring and two small appendages (octahedra) hanging     *)
(* below the left and the inferior wall.  Vertex v sits at MeshPoints[v+1].*)
(* ids: 0=A 1=B 2=C 3=D 4=ABp 5=ABa 6=CDp 7=CDa 8=ACm 9=BDm 10=E 11=F      *)
(* 12=H 13=I 14=e1 15=EFm 16=e2 17=l1 18=FHm 19=l3 20=h1 21=HIm 22=h2      *)
(* 23=r3 24=IEm 25=r1 26=p1 27=p2 28=p3 29=p4 30=p6 31=p7 32=p8 33=p9      *)
(* 34=S1 35=S2 36=Sa 37=Sp 38=Sq 39=T1 40=T2 41=Ta 42=Tp 43=Tq             *)
(***************************************************************************)
MeshPoints ==
    << <<12, 20, 0>>, <<12, 12, 0>>, <<20, 20, 0>>, <<20, 12, 0>>,
       <<12, 16, 0>>, <<8, 16, 0>>, <<20, 16, 0>>, <<24, 16, 0>>,
       <<16, 20, 0>>, <<16, 12, 0>>, <<24, 24, 0>>, <<8, 24, 0>>,
       <<8, 8, 0>>, <<24, 8, 0>>, <<20, 24, 0>>, <<16, 24, 0>>,
       <<12, 24, 0>>, <<4, 20, 0>>, <<4, 16, 0>>, <<4, 12, 0>>,
       <<12, 8, 0>>, <<16, 8, 0>>, <<20, 8, 0>>, <<28, 12, 0>>,
       <<28, 16, 0>>, <<28, 20, 0>>, <<11, 16, 0>>, <<21, 16, 0>>,
       <<16, 16, 0>>, <<16, 22, 0>>, <<6, 16, 0>>, <<16, 10, 0>>,
       <<26, 16, 0>>, <<16, 16, -20>>, <<16, 12, -4>>, <<16, 8, -4>>,
       <<14, 10, -4>>, <<18, 10, -4>>, <<16, 10, -8>>, <<6, 18, -4>>,
       <<6, 14, -4>>, <<4, 16, -4>>, <<8, 16, -4>>, <<6, 16, -8>> >>

MeshPolys ==
    << <<28, 0, 8>>, <<28, 8, 2>>, <<28, 2, 6>>, <<28, 6, 3>>, <<28, 3, 9>>,
       <<28, 9, 1>>, <<28, 1, 4>>, <<28, 4, 0>>, <<26, 0, 4>>, <<26, 4, 1>>,
       <<26, 1, 5>>, <<26, 5, 0>>, <<27, 2, 6>>, <<27, 6, 3>>, <<27, 3, 7>>,
       <<27, 7, 2>>, <<29, 0, 8>>, <<29, 8, 2>>, <<29, 2, 10>>, <<29, 10, 14>>,
       <<29, 14, 15>>, <<29, 15, 16>>, <<29, 16, 11>>, <<29, 11, 0>>, <<31, 1, 9>>,
       <<31, 9, 3>>, <<31, 3, 13>>, <<31, 13, 22>>, <<31, 22, 21>>, <<31, 21, 20>>,
       <<31, 20, 12>>, <<31, 12, 1>>, <<30, 0, 5>>, <<30, 5, 1>>, <<30, 1, 12>>,
       <<30, 12, 19>>, <<30, 19, 18>>, <<30, 18, 17>>, <<30, 17, 11>>, <<30, 11, 0>>,
       <<32, 2, 7>>, <<32, 7, 3>>, <<32, 3, 13>>, <<32, 13, 23>>, <<32, 23, 24>>,
       <<32, 24, 25>>, <<32, 25, 10>>, <<32, 10, 2>>, <<33, 11, 16>>, <<33, 16, 15>>,
       <<33, 15, 14>>, <<33, 14, 10>>, <<33, 10, 25>>, <<33, 25, 24>>, <<33, 24, 23>>,
       <<33, 23, 13>>, <<33, 13, 22>>, <<33, 22, 21>>, <<33, 21, 20>>, <<33, 20, 12>>,
       <<33, 12, 19>>, <<33, 19, 18>>, <<33, 18, 17>>, <<33, 17, 11>>, <<31, 34, 36>>,
       <<31, 36, 35>>, <<31, 35, 37>>, <<31, 37, 34>>, <<38, 34, 36>>, <<38, 36, 35>>,
       <<38, 35, 37>>, <<38, 37, 34>>, <<30, 39, 41>>, <<30, 41, 40>>, <<30, 40, 42>>,
       <<30, 42, 39>>, <<43, 39, 41>>, <<43, 41, 40>>, <<43, 40, 42>>, <<43, 42, 39>> >>

MeshStrips == << >>

GetNumberOfPoints == Len(MeshPoints)

PointIds == 0 .. (GetNumberOfPoints - 1)

GetPoint(v) == MeshPoints[v + 1]

(***************************************************************************)
(* _build_point_adjacency: a list of N sets, adjacency[v + 1] being the    *)
(* set of vertex v.  add_cell(ids, v) is what one cell adds to the set of  *)
(* v: for every pair (i, j), i < j, of the cell's ids, ids[j] to the set   *)
(* of ids[i] and ids[i] to the set of ids[j].  Cells of fewer than two ids *)
(* are passed over.                                                        *)
(***************************************************************************)
(* Variant of add_cell that adds ids[j] to the set of ids[i] and not the   *)
(* reverse.                                                                *)
add_cellOneWay(ids, v) ==
    {ids[j] : j \in {j \in DOMAIN ids : \E i \in DOMAIN ids : i < j /\ ids[i] = v}}

add_cell(ids, v) ==
    {ids[j] : j \in {j \in DOMAIN ids : \E i \in DOMAIN ids : i < j /\ ids[i] = v}}
    \cup {ids[i] : i \in {i \in DOMAIN ids : \E j \in DOMAIN ids : i < j /\ ids[j] = v}}

Cells == {cell \in Range(MeshPolys) \cup Range(MeshStrips) : Len(cell) >= 2}

AdjacencyOf(n, cells) ==
    SubSeq([k \in 1 .. n |-> UNION {add_cell(ids, k - 1) : ids \in cells}], 1, n)

_build_point_adjacency == AdjacencyOf(GetNumberOfPoints, Cells)

adjacency == _build_point_adjacency

(***************************************************************************)
(* The point locator.  A query point is num/den per coordinate, so that    *)
(* the 1/3, 2/3 and 0.25 .. 0.85 interpolations of the code are exact.     *)
(* ClosestTo is the vertex at least squared distance (the lowest id among  *)
(* equidistant ones).  build_point_locator builds the index once for the   *)
(* surface: the answers for every vertex position and for the 1/3 and 2/3  *)
(* points of every mesh edge; FindClosestPoint answers from the index and  *)
(* searches for any other query, so it equals ClosestTo everywhere.        *)
(***************************************************************************)
Pt(c) == [num |-> c, den |-> 1]

Third(p0, p1, k) ==
    [num |-> <<(3 - k) * p0[1] + k * p1[1],
               (3 - k) * p0[2] + k * p1[2],
               (3 - k) * p0[3] + k * p1[3]>>,
     den |-> 3]

Dist2(p, v) ==
    LET q == GetPoint(v)
        dx == p.den * q[1] - p.num[1]
        dy == p.den * q[2] - p.num[2]
        dz == p.den * q[3] - p.num[3]
    IN  dx * dx + dy * dy + dz * dz

ClosestTo(p) ==
    LET d == [v \in PointIds |-> Dist2(p, v)]
        best == SetMin({d[v] : v \in PointIds})
    IN  SetMin({v \in PointIds : d[v] = best})

LocatorQueries(v) ==
    {Pt(GetPoint(v))}
    \cup {Third(GetPoint(v), GetPoint(w), k) : w \in adjacency[v + 1], k \in {1, 2}}

RECURSIVE LocatorOver(_, _)
LocatorOver(first, last) ==
    IF first = last
    THEN Restrict([q \in LocatorQueries(first) |-> ClosestTo(q)], LocatorQueries(first))
    ELSE LocatorOver(first, (first + last) \div 2)
         @@ LocatorOver(((first + last) \div 2) + 1, last)

build_point_locator == LocatorOver(0, GetNumberOfPoints - 1)

locator == build_point_locator

FindClosestPoint(p) ==
    IF p \in DOMAIN locator THEN locator[p] ELSE ClosestTo(p)

(***************************************************************************)
(* Iteration order of a Python set of small ints: fixed for one process,   *)
(* not specified by the language; set_order picks it for a behaviour.      *)
(***************************************************************************)
RECURSIVE SetIter(_)
SetIter(S) ==
    IF S = {} THEN << >>
    ELSE LET x == IF set_order = "asc" THEN SetMin(S) ELSE SetMax(S)
         IN  <<x>> \o SetIter(S \ {x})

(***************************************************************************)
(* _find_non_boundary_seed: start itself when it is free, else the first   *)
(* free neighbour met by a breadth-first walk through boundary/blocked     *)
(* vertices.  blocked_ids is None or a set.  One step of SeedQueue is one  *)
(* pass of the while loop: the neighbours of the popped vertex in set      *)
(* order; the first unvisited free one is returned, otherwise the          *)
(* unvisited ones are marked visited and queued.                           *)
(***************************************************************************)
OrEmpty(opt) == IF opt.none THEN {} ELSE opt.val

(* Variant of SeedQueue that queues the boundary neighbours alone.          *)
RECURSIVE SeedQueueAlongBoundary(_, _, _, _, _)
SeedQueueAlongBoundary(adj, queue, visited, boundary_ids, blocked_ids) ==
    IF queue = << >> THEN NoVertex
    ELSE LET nbrs == SetIter(adj[Head(queue) + 1])
             unvisited == SelectSeq(nbrs, LAMBDA neighbor : neighbor \notin visited)
             free == SelectSeq(unvisited,
                               LAMBDA neighbor : ~(neighbor \in boundary_ids
                                                   \/ neighbor \in blocked_ids))
         IN  IF free # << >> THEN free[1]
             ELSE SeedQueueAlongBoundary(
                      adj,
                      Tail(queue) \o SelectSeq(unvisited,
                                               LAMBDA neighbor : neighbor \in boundary_ids),
                      visited \cup Range(unvisited), boundary_ids, blocked_ids)

RECURSIVE SeedQueue(_, _, _, _, _)
SeedQueue(adj, queue, visited, boundary_ids, blocked_ids) ==
    IF queue = << >> THEN NoVertex
    ELSE LET nbrs == SetIter(adj[Head(queue) + 1])
             unvisited == SelectSeq(nbrs, LAMBDA neighbor : neighbor \notin visited)
             free == SelectSeq(unvisited,
                               LAMBDA neighbor : ~(neighbor \in boundary_ids
                                                   \/ neighbor \in blocked_ids))
         IN  IF free # << >> THEN free[1]
             ELSE SeedQueue(adj, Tail(queue) \o unvisited, visited \cup Range(unvisited),
                            boundary_ids, blocked_ids)

_find_non_boundary_seed(start_id, adj, boundary_ids, blocked_opt) ==
    LET blocked_ids == OrEmpty(blocked_opt)
    IN  IF start_id \notin boundary_ids /\ start_id \notin blocked_ids
        THEN start_id
        ELSE SeedQueue(adj, <<start_id>>, {start_id}, boundary_ids, blocked_ids)

(***************************************************************************)
(* _collect_component: breadth-first fill from seed_id over the adjacency  *)
(* list adj; the seed is put in visited unconditionally, a neighbour only  *)
(* when it is neither boundary nor blocked.  Fill takes one level of the   *)
(* queue at a time.                                                        *)
(***************************************************************************)
(* Variant of Fill that tests the boundary alone when it takes a           *)
(* neighbour.                                                              *)
RECURSIVE FillThroughBlocked(_, _, _, _, _)
FillThroughBlocked(adj, frontier, visited, boundary_ids, blocked_ids) ==
    LET fresh == {n \in UNION {adj[c + 1] : c \in frontier} :
                     n \notin visited /\ n \notin boundary_ids}
    IN  IF fresh = {} THEN visited
        ELSE FillThroughBlocked(adj, fresh, visited \cup fresh, boundary_ids, blocked_ids)

(* Variant of Fill that stops after the neighbours of the seed.            *)
FillOneLevel(adj, frontier, visited, boundary_ids, blocked_ids) ==
    visited \cup {n \in UNION {adj[c + 1] : c \in frontier} :
                     /\ n \notin visited
                     /\ ~(n \in boundary_ids \/ n \in blocked_ids)}

RECURSIVE Fill(_, _, _, _, _)
Fill(adj, frontier, visited, boundary_ids, blocked_ids) ==
    LET fresh == {n \in UNION {adj[c + 1] : c \in frontier} :
                     /\ n \notin visited
                     /\ ~(n \in boundary_ids \/ n \in blocked_ids)}
    IN  IF fresh = {} THEN visited
        ELSE Fill(adj, fresh, visited \cup fresh, boundary_ids, blocked_ids)

_collect_component(seed_id, adj, boundary_ids, blocked_opt) ==
    Fill(adj, {seed_id}, {seed_id}, boundary_ids, OrEmpty(blocked_opt))

(***************************************************************************)
(* A stored polyline: its points (coordinates) and its line cells (0-based *)
(* indices into points).  haspoints / haslines are FALSE where GetPoints() *)
(* / GetLines() would give None.                                           *)
(***************************************************************************)
PathPolyline(path) ==
    [haspoints |-> TRUE, haslines |-> TRUE,
     points |-> SubSeq([i \in 1 .. Len(path) |-> GetPoint(path[i])], 1, Len(path)),
     lines |-> << SubSeq([i \in 1 .. Len(path) |-> i - 1], 1, Len(path)) >>]

CellSampleIds(points, cell) ==
    IF Len(cell) < 2 THEN {}
    ELSE UNION {LET p0 == points[cell[i - 1] + 1]
                    p1 == points[cell[i] + 1]
                IN  {FindClosestPoint(Pt(p0)), FindClosestPoint(Pt(p1)),
                     FindClosestPoint(Third(p0, p1, 1)),
                     FindClosestPoint(Third(p0, p1, 2))} : i \in 2 .. Len(cell)}

PolylineSampleIds(polyline) ==
    UNION {CellSampleIds(polyline.points, polyline.lines[c]) : c \in DOMAIN polyline.lines}

_collect_boundary_ids(lines_by_key, boundary_keys) ==
    IF \E i \in DOMAIN boundary_keys :
          \/ boundary_keys[i] \notin DOMAIN lines_by_key
          \/ ~lines_by_key[boundary_keys[i]].haspoints
          \/ ~lines_by_key[boundary_keys[i]].haslines
    THEN None
    ELSE Some(UNION {PolylineSampleIds(lines_by_key[boundary_keys[i]]) :
                        i \in DOMAIN boundary_keys})

_collect_available_boundary_ids(lines_by_key, boundary_keys) ==
    UNION {PolylineSampleIds(lines_by_key[boundary_keys[i]]) :
              i \in {j \in DOMAIN boundary_keys :
                        /\ boundary_keys[j] \in DOMAIN lines_by_key
                        /\ lines_by_key[boundary_keys[j]].haspoints
                        /\ lines_by_key[boundary_keys[j]].haslines}}

NoPoint == [none |-> TRUE, p |-> Pt(<<0, 0, 0>>)]

SomePoint(q) == [none |-> FALSE, p |-> q]

_polyline_midpoint_point(polyline) ==
    IF ~polyline.haspoints THEN NoPoint
    ELSE IF Len(polyline.points) = 0 THEN NoPoint
    ELSE SomePoint(Pt(polyline.points[(Len(polyline.points) \div 2) + 1]))

(***************************************************************************)
(* _collect_segment_component, with its locals kept: the boundary, the     *)
(* entry vertex of the opposite landmark, the wrong-side component, the    *)
(* seed entry and the returned component (None on each early return).      *)
(* Each step receives the locals computed so far.                          *)
(***************************************************************************)
NoGrowth == [result |-> None, boundary |-> {}, opposite_id |-> NoVertex,
             seed_id |-> NoVertex, opposite_seed |-> NoVertex,
             wrong_component |-> {}, seed |-> NoVertex]

SeedBlocked(blocked_opt, wrong_component) ==
    IF blocked_opt.val # {} THEN wrong_component \cup blocked_opt.val
    ELSE wrong_component

GrowthFromSeed(boundary_ids, opposite_id, seed_id, opposite_seed, wrong_component, blocked_opt, seed) ==
    IF seed = NoVertex
    THEN [NoGrowth EXCEPT !.boundary = boundary_ids, !.opposite_id = opposite_id,
                          !.seed_id = seed_id, !.opposite_seed = opposite_seed,
                          !.wrong_component = wrong_component]
    ELSE [result |-> Some(_collect_component(
                              seed, adjacency, boundary_ids,
                              Some(SeedBlocked(blocked_opt, wrong_component)))),
          boundary |-> boundary_ids, opposite_id |-> opposite_id,
          seed_id |-> seed_id, opposite_seed |-> opposite_seed,
          wrong_component |-> wrong_component, seed |-> seed]

(* Variant of GrowthFromWrongSide whose seed search is not kept out of the  *)
(* wrong-side component.                                                   *)
GrowthFromWrongSideSeedAnywhere(boundary_ids, opposite_id, seed_id, opposite_seed, blocked_opt, wrong_component) ==
    GrowthFromSeed(boundary_ids, opposite_id, seed_id, opposite_seed, wrong_component,
                   blocked_opt,
                   _find_non_boundary_seed(seed_id, adjacency, boundary_ids, blocked_opt))

GrowthFromWrongSide(boundary_ids, opposite_id, seed_id, opposite_seed, blocked_opt, wrong_component) ==
    GrowthFromSeed(boundary_ids, opposite_id, seed_id, opposite_seed, wrong_component,
                   blocked_opt,
                   _find_non_boundary_seed(
                       seed_id, adjacency, boundary_ids,
                       Some(OrEmpty(blocked_opt) \cup wrong_component)))

GrowthFromOpposite(boundary_ids, opposite_id, seed_id, blocked_opt, opposite_seed) ==
    IF opposite_seed = NoVertex
    THEN [NoGrowth EXCEPT !.boundary = boundary_ids, !.opposite_id = opposite_id,
                          !.seed_id = seed_id]
    ELSE GrowthFromWrongSide(boundary_ids, opposite_id, seed_id, opposite_seed,
                             blocked_opt,
                             _collect_component(opposite_seed, adjacency, boundary_ids,
                                                None))

GrowthWithin(b, opposite_point, seed_source, blocked_opt) ==
    IF b.none THEN NoGrowth
    ELSE GrowthFromOpposite(b.val, FindClosestPoint(opposite_point),
                            FindClosestPoint(seed_source), blocked_opt,
                            _find_non_boundary_seed(FindClosestPoint(opposite_point),
                                                    adjacency, b.val, None))

SegmentGrowth(lm, lines_by_key, boundary_keys, opposite_key, seed_key, blocked_opt, seed_point) ==
    GrowthWithin(_collect_boundary_ids(lines_by_key, boundary_keys),
                 Pt(lm[opposite_key]),
                 IF ~seed_point.none THEN seed_point.p ELSE Pt(lm[seed_key]),
                 blocked_opt)

_collect_segment_component(lm, lines_by_key, boundary_keys, opposite_key, seed_key, blocked_opt, seed_point) ==
    SegmentGrowth(lm, lines_by_key, boundary_keys, opposite_key, seed_key,
                  blocked_opt, seed_point).result

(***************************************************************************)
(* _diagnose_segment_failure: the reason part of the failure message.      *)
(***************************************************************************)
DiagnoseGrowth(b, g, blocked_opt) ==
    IF b.none THEN "missing boundary polyline"
    ELSE IF g.opposite_seed = NoVertex
    THEN (IF g.opposite_id \in g.boundary THEN "opposite on boundary"
          ELSE "opposite enclosed")
    ELSE IF g.seed = NoVertex
    THEN (IF g.seed_id \in g.boundary THEN "seed on boundary"
          ELSE IF g.seed_id \in SeedBlocked(blocked_opt, g.wrong_component)
          THEN "seed blocked"
          ELSE "seed enclosed")
    ELSE "unknown"

_diagnose_segment_failure(lm, lines_by_key, boundary_keys, opposite_key, seed_key, blocked_opt, seed_point) ==
    DiagnoseGrowth(_collect_boundary_ids(lines_by_key, boundary_keys),
                   SegmentGrowth(lm, lines_by_key, boundary_keys, opposite_key, seed_key,
                                 blocked_opt, seed_point),
                   blocked_opt)

(***************************************************************************)
(* _collect_failure_debug: the vertex ids shown for a failed region.       *)
(***************************************************************************)
NoDebug == [none |-> TRUE, boundary_ids |-> {}, seed_id |-> NoVertex,
            opposite_id |-> NoVertex, opposite_seed_id |-> NoVertex,
            seed_candidate_id |-> NoVertex]

DebugGrowth(b, g) ==
    IF b.none THEN NoDebug
    ELSE [none |-> FALSE, boundary_ids |-> g.boundary, seed_id |-> g.seed_id,
          opposite_id |-> g.opposite_id, opposite_seed_id |-> g.opposite_seed,
          seed_candidate_id |-> g.seed]

_collect_failure_debug(lm, lines_by_key, boundary_keys, opposite_key, seed_key, blocked_opt, seed_point) ==
    DebugGrowth(_collect_boundary_ids(lines_by_key, boundary_keys),
                SegmentGrowth(lm, lines_by_key, boundary_keys, opposite_key, seed_key,
                              blocked_opt, seed_point))

(***************************************************************************)
(* _seed_fallback_candidates: seed + (opposite - seed) * t for             *)
(* t = 0.25, 0.45, 0.65, 0.85, kept exact as twentieths.                   *)
(***************************************************************************)
(* Variant of FallbackT in descending order.                               *)
FallbackTDescending == <<17, 13, 9, 5>>

FallbackT == <<5, 9, 13, 17>>

_seed_fallback_candidates(lm, seed_key, opposite_key) ==
    IF seed_key \notin DOMAIN lm \/ opposite_key \notin DOMAIN lm THEN << >>
    ELSE LET a == lm[seed_key]
             c == lm[opposite_key]
         IN  SubSeq([i \in DOMAIN FallbackT |->
                        [num |-> <<20 * a[1] + (c[1] - a[1]) * FallbackT[i],
                                   20 * a[2] + (c[2] - a[2]) * FallbackT[i],
                                   20 * a[3] + (c[3] - a[3]) * FallbackT[i]>>,
                         den |-> 20]],
                    1, Len(FallbackT))

(***************************************************************************)
(* Messages.  A Python message string is kept as its parts: the kind, the  *)
(* region it names (0 for none), the missing curve names and the reason.   *)
(* NoMessage is None; a message is truthy iff its kind is not "".          *)
(***************************************************************************)
Message(kind, seg, missing, reason) ==
    [kind |-> kind, seg |-> seg, missing |-> missing, reason |-> reason]

NoMessage == Message("", 0, << >>, "")

(***************************************************************************)
(* The loop over the fallback seeds.  attempts lists the growths run for   *)
(* the region so far, each with the seed point it was given (NoPoint: the  *)
(* seed landmark) and whether it returned a component.                     *)
(***************************************************************************)
Attempt(seed_point, found) == [seed_point |-> seed_point, found |-> found]

RECURSIVE FirstSome(_, _, _, _, _, _, _, _, _)
Candidate(cands, i, lm, lines_by_key, deps, opposite_key, seed_key, blocked_opt, attempts, segment) ==
    IF ~segment.none
    THEN [segment |-> segment,
          attempts |-> Append(attempts, Attempt(SomePoint(cands[i]), TRUE))]
    ELSE FirstSome(cands, i + 1, lm, lines_by_key, deps, opposite_key, seed_key,
                   blocked_opt, Append(attempts, Attempt(SomePoint(cands[i]), FALSE)))

FirstSome(cands, i, lm, lines_by_key, deps, opposite_key, seed_key, blocked_opt, attempts) ==
    IF i > Len(cands) THEN [segment |-> None, attempts |-> attempts]
    ELSE Candidate(cands, i, lm, lines_by_key, deps, opposite_key, seed_key, blocked_opt,
                   attempts,
                   _collect_segment_component(lm, lines_by_key, deps, opposite_key,
                                              seed_key, blocked_opt,
                                              SomePoint(cands[i])))

(***************************************************************************)
(* compute_segment_with_fallback.  Besides the returned triple it records  *)
(* whether the region was skipped for absent landmarks, whether a growth   *)
(* was run, the blocked set handed to it and the growths that were run.    *)
(***************************************************************************)
NoSegment == [segment |-> None, error_message |-> NoMessage, debug_points |-> NoDebug,
              skipped |-> FALSE, grown |-> FALSE, handed |-> None, attempts |-> << >>]

AvailableDebug(lines_by_key, deps) ==
    [NoDebug EXCEPT !.none = FALSE,
                    !.boundary_ids = _collect_available_boundary_ids(lines_by_key, deps)]

DebugOr(debug_points, available) ==
    IF debug_points.none THEN available ELSE debug_points

SeedPoint(lines_by_key, deps) ==
    IF Len(deps) > 0 /\ deps[1] \in DOMAIN lines_by_key
    THEN _polyline_midpoint_point(lines_by_key[deps[1]])
    ELSE NoPoint

SegmentOutcome(lm, lines_by_key, seg_id, deps, opposite_key, seed_key, handed, seed_point, retry) ==
    IF retry.segment.none
    THEN [NoSegment EXCEPT
            !.error_message =
                Message("failed", seg_id, << >>,
                        _diagnose_segment_failure(lm, lines_by_key, deps, opposite_key,
                                                  seed_key, handed, seed_point)),
            !.debug_points =
                DebugOr(_collect_failure_debug(lm, lines_by_key, deps, opposite_key,
                                               seed_key, handed, seed_point),
                        AvailableDebug(lines_by_key, deps)),
            !.grown = TRUE, !.handed = handed, !.attempts = retry.attempts]
    ELSE [NoSegment EXCEPT !.segment = retry.segment, !.grown = TRUE, !.handed = handed,
                           !.attempts = retry.attempts]

SegmentRetry(lm, lines_by_key, seg_id, deps, opposite_key, seed_key, handed, seed_point, allow_fallback, first) ==
    SegmentOutcome(lm, lines_by_key, seg_id, deps, opposite_key, seed_key, handed,
                   seed_point,
                   IF first.none /\ allow_fallback
                   THEN FirstSome(_seed_fallback_candidates(lm, seed_key, opposite_key), 1,
                                  lm, lines_by_key, deps, opposite_key, seed_key, handed,
                                  <<Attempt(seed_point, FALSE)>>)
                   ELSE [segment |-> first,
                         attempts |-> <<Attempt(seed_point, ~first.none)>>])

SegmentFirst(lm, lines_by_key, seg_id, deps, opposite_key, seed_key, handed, seed_point, allow_fallback) ==
    SegmentRetry(lm, lines_by_key, seg_id, deps, opposite_key, seed_key, handed,
                 seed_point, allow_fallback,
                 _collect_segment_component(lm, lines_by_key, deps, opposite_key,
                                            seed_key, handed, seed_point))

compute_segment_with_fallback(lm, lines_by_key, seg_id, deps, opposite_key, seed_key, blocked_ids, required_landmarks, allow_fallback, report_missing_deps) ==
    IF ~required_landmarks.none /\ ~(required_landmarks.val \subseteq DOMAIN lm)
    THEN [NoSegment EXCEPT !.skipped = TRUE]
    ELSE IF \E i \in DOMAIN deps : deps[i] \notin DOMAIN lines_by_key
    THEN (IF report_missing_deps
          THEN [NoSegment EXCEPT
                  !.error_message =
                      Message("skipped: missing boundary geodesics", seg_id,
                              SelectSeq(deps, LAMBDA key : key \notin DOMAIN lines_by_key),
                              ""),
                  !.debug_points = AvailableDebug(lines_by_key, deps)]
          ELSE NoSegment)
    ELSE SegmentFirst(lm, lines_by_key, seg_id, deps, opposite_key, seed_key,
                      IF blocked_ids.val # {} THEN blocked_ids ELSE None,
                      SeedPoint(lines_by_key, deps), allow_fallback)

(***************************************************************************)
(* _assign_boundary_vertices: in place, in the iteration order of the      *)
(* boundary set.  neighbor_counts is kept as the nine counts of labels 1   *)
(* to 9 (0 for a label the dict does not hold); seen keeps it for every    *)
(* vertex that was visited while unlabeled.                                *)
(***************************************************************************)
GetValue(ids, i) == ids[i + 1]

SetValue(ids, i, value) == [ids EXCEPT ![i + 1] = value]

NeighborCounts(ids, vertex_id) ==
    SubSeq([seg \in 1 .. 9 |->
               Cardinality({n \in adjacency[vertex_id + 1] : GetValue(ids, n) = seg})],
           1, 9)

Counted(neighbor_counts) == {seg \in 1 .. 9 : neighbor_counts[seg] > 0}

(* Variant of BestSeg whose sort key is (count, seg): the higher region on *)
(* a tie.                                                                  *)
BestSegHigherOnTie(neighbor_counts) ==
    CHOOSE s \in Counted(neighbor_counts) :
        \A t \in Counted(neighbor_counts) :
            \/ t = s
            \/ neighbor_counts[t] < neighbor_counts[s]
            \/ (neighbor_counts[t] = neighbor_counts[s] /\ t < s)

BestSeg(neighbor_counts) ==
    CHOOSE s \in Counted(neighbor_counts) :
        \A t \in Counted(neighbor_counts) :
            \/ t = s
            \/ neighbor_counts[t] < neighbor_counts[s]
            \/ (neighbor_counts[t] = neighbor_counts[s] /\ (0 - t) < (0 - s))

RECURSIVE AssignLoop(_, _, _, _)
AssignLoop(order, i, ids, seen) ==
    IF i > Len(order) THEN [ids |-> ids, seen |-> seen]
    ELSE LET vertex_id == order[i]
             neighbor_counts == NeighborCounts(ids, vertex_id)
         IN  IF GetValue(ids, vertex_id) # 0 THEN AssignLoop(order, i + 1, ids, seen)
             ELSE AssignLoop(order, i + 1,
                             IF Counted(neighbor_counts) # {}
                             THEN SetValue(ids, vertex_id, BestSeg(neighbor_counts))
                             ELSE ids,
                             seen @@ (vertex_id :> neighbor_counts))

_assign_boundary_vertices(ids, boundary_ids) ==
    AssignLoop(SetIter(boundary_ids), 1, ids, << >>)

(***************************************************************************)
(* _build_segment_ids: zero array, regions painted 1 to 9 (a later region  *)
(* only on vertices still 0), then the boundary pass over the sampled ids  *)
(* of every stored geodesic.                                               *)
(***************************************************************************)
ZeroIds == SubSeq([i \in 1 .. GetNumberOfPoints |-> 0], 1, GetNumberOfPoints)

(* Variant of PaintSegment without the test for a label already set.      *)
RECURSIVE PaintSegmentOverwrites(_, _, _, _)
PaintSegmentOverwrites(ids, order, i, seg_id) ==
    IF i > Len(order) THEN ids
    ELSE PaintSegmentOverwrites(SetValue(ids, order[i], seg_id), order, i + 1, seg_id)

RECURSIVE PaintSegment(_, _, _, _)
PaintSegment(ids, order, i, seg_id) ==
    IF i > Len(order) THEN ids
    ELSE PaintSegment(IF seg_id = 1 \/ GetValue(ids, order[i]) = 0
                      THEN SetValue(ids, order[i], seg_id) ELSE ids,
                      order, i + 1, seg_id)

RECURSIVE PaintSegments(_, _, _)
PaintSegments(ids, segments, seg_id) ==
    IF seg_id > 9 THEN ids
    ELSE PaintSegments(
             IF seg_id \in DOMAIN segments /\ segments[seg_id] # {}
             THEN PaintSegment(ids, SetIter(segments[seg_id]), 1, seg_id)
             ELSE ids,
             segments, seg_id + 1)

RECURSIVE KeysTuple(_)
KeysTuple(keys) ==
    IF keys = {} THEN << >>
    ELSE LET key == CHOOSE k \in keys : TRUE
         IN  <<key>> \o KeysTuple(keys \ {key})

Healed(painted, boundary_ids, healed) ==
    [ids |-> healed.ids, seen |-> healed.seen, painted |-> painted,
     boundary |-> boundary_ids]

BuildFrom(painted, boundary_ids) ==
    IF ~boundary_ids.none /\ boundary_ids.val # {}
    THEN Healed(painted, boundary_ids.val,
                _assign_boundary_vertices(painted, boundary_ids.val))
    ELSE [ids |-> painted, seen |-> << >>, painted |-> painted, boundary |-> {}]

_build_segment_ids(segments, lines_by_key) ==
    BuildFrom(PaintSegments(ZeroIds, segments, 1),
              _collect_boundary_ids(lines_by_key, KeysTuple(DOMAIN lines_by_key)))

(***************************************************************************)
(* The nine region blocks of compute_segment_ids, as a table: boundary     *)
(* curves (extended by the auxiliary pairs that are stored), opposite and  *)
(* seed landmark, required landmarks, fallback flag and the blocked set    *)
(* built from the regions resolved so far.                                 *)
(***************************************************************************)
IfPair(lines_by_key, anterior, posterior) ==
    IF {anterior, posterior} \subseteq DOMAIN lines_by_key
    THEN <<anterior, posterior>> ELSE << >>

SegDeps(seg_id, lines_by_key) ==
    CASE seg_id = 1 -> <<"AB_posterior", "AB_anterior">>
                       \o IfPair(lines_by_key, "X1_X2_anterior", "X1_X2_posterior")
                       \o IfPair(lines_by_key, "A1_A2_anterior", "A1_A2_posterior")
                       \o IfPair(lines_by_key, "B1_B2_anterior", "B1_B2_posterior")
      [] seg_id = 2 -> <<"CD_posterior", "CD_anterior">>
                       \o IfPair(lines_by_key, "C1_C2_anterior", "C1_C2_posterior")
                       \o IfPair(lines_by_key, "D1_D2_anterior", "D1_D2_posterior")
      [] seg_id = 3 -> <<"AB_posterior", "CD_posterior", "AC", "BD">>
      [] seg_id = 4 -> <<"AC", "AF", "CE", "EF_aniso">>
      [] seg_id = 5 -> <<"LAA1_LAA2_anterior", "LAA1_LAA2_posterior">>
                       \o IfPair(lines_by_key, "X1_X2_anterior", "X1_X2_posterior")
      [] seg_id = 6 -> <<"AB_anterior", "AF", "BH", "FH_aniso">>
                       \o IfPair(lines_by_key, "LAA1_LAA2_anterior", "LAA1_LAA2_posterior")
      [] seg_id = 7 -> <<"BD", "DI", "BH", "HI_aniso">>
      [] seg_id = 8 -> <<"CD_anterior", "CE", "DI", "IE_aniso">>
      [] seg_id = 9 -> <<"EF_aniso", "FH_aniso", "HI_aniso", "IE_aniso">>

OppositeKey(seg_id) == <<"D", "A", "E", "H", "I", "E", "A", "B", "B">>[seg_id]

SeedKey(seg_id) == <<"A", "C", "C", "C", "LAA1", "B", "D", "D", "E">>[seg_id]

AllowFallback(seg_id) == seg_id \in {4, 6, 7, 8, 9}

BaseLandmarks == {"A", "B", "C", "D", "E", "F"}

WallLandmarks == {"A", "B", "C", "D", "E", "F", "H", "I"}

RequiredLandmarks(seg_id) ==
    CASE seg_id \in {1, 2, 3} -> None
      [] seg_id \in {4, 6, 7, 8} -> Some(WallLandmarks)
      [] seg_id = 5 -> Some({"LAA1", "LAA2", "I", "F"})
      [] seg_id = 9 -> Some({"E", "F", "H", "I"})

UnionOf(segments, seg_ids) == UNION {segments[k] : k \in seg_ids \cap DOMAIN segments}

Truthy(S) == IF S # {} THEN Some(S) ELSE None

BlockedFor(seg_id, segments) ==
    CASE seg_id = 1 -> None
      [] seg_id = 2 -> IF 1 \in DOMAIN segments THEN Some(segments[1]) ELSE None
      [] seg_id = 3 -> Truthy(UnionOf(segments, {1, 2}))
      [] seg_id = 4 -> Truthy(UnionOf(segments, {1, 2, 3}))
      [] seg_id = 5 -> Truthy(UnionOf(segments, {1, 2, 3, 4}))
      [] seg_id = 6 -> Truthy(UnionOf(segments, {1, 2, 3, 4}) \cup UnionOf(segments, {5}))
      [] seg_id = 7 -> Truthy(UnionOf(segments, {1, 2, 3, 4, 6}))
      [] seg_id = 8 -> Truthy(UnionOf(segments, {1, 2, 3, 4, 6, 7}))
      [] seg_id = 9 -> None

(***************************************************************************)
(* compute_segment_ids.  The result carries the returned triple            *)
(* (segment_ids, error_message, debug_points) and the locals of the run:   *)
(* segments, the regions whose block was entered (visited), skipped for    *)
(* absent landmarks (skipped), grown, the blocked set handed to each       *)
(* growth and the growths run for each.  NoArray is the None returned for  *)
(* segment_ids.                                                            *)
(***************************************************************************)
NoArray == << >>

NoRun == [segment_ids |-> NoArray, error_message |-> NoMessage, debug_points |-> NoDebug,
          segments |-> << >>, visited |-> {}, skipped |-> {}, grown |-> {},
          handed |-> << >>, attempts |-> << >>, painted |-> NoArray,
          boundary |-> {}, seen |-> << >>]

Built(run, built, error_message, debug_points) ==
    [run EXCEPT !.segment_ids = built.ids, !.error_message = error_message,
                !.debug_points = debug_points, !.painted = built.painted,
                !.boundary = built.boundary, !.seen = built.seen]

(* Variant of Finish that returns no array with an error message.          *)
FinishAllOrNothing(run, lines_by_key, error_message, debug_points) ==
    IF error_message.kind # ""
    THEN [run EXCEPT !.error_message = error_message, !.debug_points = debug_points]
    ELSE Built(run, _build_segment_ids(run.segments, lines_by_key), error_message,
               debug_points)

Finish(run, lines_by_key, error_message, debug_points) ==
    Built(run, _build_segment_ids(run.segments, lines_by_key), error_message,
          debug_points)

Entered(run, seg_id, r) ==
    [run EXCEPT
       !.visited = @ \cup {seg_id},
       !.skipped = IF r.skipped THEN @ \cup {seg_id} ELSE @,
       !.grown = IF r.grown THEN @ \cup {seg_id} ELSE @,
       !.handed = IF r.grown THEN @ @@ (seg_id :> r.handed) ELSE @,
       !.attempts = IF r.grown THEN @ @@ (seg_id :> r.attempts) ELSE @,
       !.segments = IF r.error_message.kind = "" /\ ~r.segment.none /\ r.segment.val # {}
                    THEN @ @@ (seg_id :> r.segment.val) ELSE @]

RECURSIVE RunRegions(_, _, _, _)
(* Variants of AfterRegion: one goes on to the next region whatever the    *)
(* message, one also returns at a region skipped for absent landmarks.     *)
AfterRegionGoesOn(seg_id, run, lm, lines_by_key, r) ==
    RunRegions(seg_id + 1, Entered(run, seg_id, r), lm, lines_by_key)

AfterRegionStopsAtSkipped(seg_id, run, lm, lines_by_key, r) ==
    IF r.error_message.kind # "" \/ r.skipped
    THEN Finish(Entered(run, seg_id, r), lines_by_key, r.error_message, r.debug_points)
    ELSE RunRegions(seg_id + 1, Entered(run, seg_id, r), lm, lines_by_key)

AfterRegion(seg_id, run, lm, lines_by_key, r) ==
    IF r.error_message.kind # ""
    THEN Finish(Entered(run, seg_id, r), lines_by_key, r.error_message, r.debug_points)
    ELSE RunRegions(seg_id + 1, Entered(run, seg_id, r), lm, lines_by_key)

RunRegions(seg_id, run, lm, lines_by_key) ==
    IF seg_id > 9 THEN Finish(run, lines_by_key, NoMessage, NoDebug)
    ELSE AfterRegion(seg_id, run, lm, lines_by_key,
                     compute_segment_with_fallback(
                         lm, lines_by_key, seg_id, SegDeps(seg_id, lines_by_key),
                         OppositeKey(seg_id), SeedKey(seg_id),
                         BlockedFor(seg_id, run.segments), RequiredLandmarks(seg_id),
                         AllowFallback(seg_id), TRUE))

compute_segment_ids(lm, lines_by_key) ==
    IF ~(BaseLandmarks \subseteq DOMAIN lm)
    THEN [NoRun EXCEPT !.error_message = Message("Missing base landmarks", 0, << >>, "")]
    ELSE IF ~({"AB_anterior", "AB_posterior"} \subseteq DOMAIN lines_by_key)
    THEN [NoRun EXCEPT !.error_message = Message("Missing AB geodesics", 0, << >>, "")]
    ELSE IF ~({"CD_anterior", "CD_posterior"} \subseteq DOMAIN lines_by_key)
    THEN [NoRun EXCEPT !.error_message = Message("Missing CD geodesics", 0, << >>, "")]
    ELSE RunRegions(1, NoRun, lm, lines_by_key)

(***************************************************************************)
(* Input sets.  A landmark is the position of the picked vertex; a stored  *)
(* geodesic is the polyline of a vertex path (the path filters always set  *)
(* points and lines on their output).                                      *)
(***************************************************************************)
WallPaths ==
    [AB_posterior |-> <<0, 4, 1>>, AB_anterior |-> <<0, 5, 1>>,
     CD_posterior |-> <<2, 6, 3>>, CD_anterior |-> <<2, 7, 3>>,
     AC |-> <<0, 8, 2>>, BD |-> <<1, 9, 3>>, CE |-> <<2, 10>>, AF |-> <<0, 11>>,
     BH |-> <<1, 12>>, DI |-> <<3, 13>>,
     EF_aniso |-> <<10, 14, 15, 16, 11>>, FH_aniso |-> <<11, 17, 18, 19, 12>>,
     HI_aniso |-> <<12, 20, 21, 22, 13>>, IE_aniso |-> <<13, 23, 24, 25, 10>>]

AppendagePaths(site) ==
    IF site = "inferior"
    THEN [LAA1_LAA2_anterior |-> <<34, 36, 35>>, LAA1_LAA2_posterior |-> <<34, 37, 35>>]
    ELSE [LAA1_LAA2_anterior |-> <<39, 41, 40>>, LAA1_LAA2_posterior |-> <<39, 42, 40>>]

WallPicks ==
    [A |-> 0, B |-> 1, C |-> 2, D |-> 3, E |-> 10, F |-> 11, H |-> 12, I |-> 13]

AppendagePicks(site) ==
    IF site = "inferior" THEN [LAA1 |-> 34, LAA2 |-> 35] ELSE [LAA1 |-> 39, LAA2 |-> 40]

Sites == {"inferior", "lateral"}

SessionLandmarks(site) ==
    LET picks == WallPicks @@ AppendagePicks(site)
    IN  Restrict([key \in DOMAIN picks |-> GetPoint(picks[key])], DOMAIN picks)

SessionLines(site) ==
    LET paths == WallPaths @@ AppendagePaths(site)
    IN  Restrict([key \in DOMAIN paths |-> PathPolyline(paths[key])], DOMAIN paths)

MaxEdits == 1

(***************************************************************************)
(* flood holds one call of _collect_component on a graph of its own: the   *)
(* arguments and, once the call has returned, the returned set.  NoFlood   *)
(* in the behaviours of the main window.                                   *)
(***************************************************************************)
NoFlood == [adjacency |-> << >>, seed_id |-> NoVertex, boundary_ids |-> {},
            blocked_ids |-> None, returned |-> None]

(***************************************************************************)
(* trial holds one call of a function of geodesics.py or regions.py on     *)
(* arguments of its own and, once the call has returned, what it returned. *)
(* NoTrial in the behaviours of the main window.                           *)
(***************************************************************************)
NoTrial == [op |-> ""]

(***************************************************************************)
(* State after construction (empty dictionaries, nothing computed) or a    *)
(* session in which the ten landmarks were placed.                         *)
(***************************************************************************)
Init ==
    /\ set_order \in {"asc", "desc"}
    /\ \/ landmarks = << >> /\ geodesic_lines = << >>
       \/ \E site \in Sites :
             landmarks = SessionLandmarks(site) /\ geodesic_lines = SessionLines(site)
    /\ last_segment_ids = NoArray
    /\ last_segment_error = NoMessage
    /\ point_data = NoArray
    /\ call = NoRun
    /\ dirty = TRUE
    /\ edits = 0
    /\ flood = NoFlood
    /\ trial = NoTrial

(***************************************************************************)
(* _calculate_regions: the handler of the "Calculate regions" button.      *)
(***************************************************************************)
(* Variant of Publish that applies the returned value to the mesh without *)
(* the test for None.                                                      *)
PublishAlwaysApplies(run) ==
    /\ call' = run
    /\ last_segment_ids' = run.segment_ids
    /\ last_segment_error' = run.error_message
    /\ point_data' = run.segment_ids
    /\ dirty' = FALSE
    /\ UNCHANGED <<landmarks, geodesic_lines, edits, set_order, flood, trial>>

Publish(run) ==
    /\ call' = run
    /\ last_segment_ids' = run.segment_ids
    /\ last_segment_error' = run.error_message
    /\ point_data' = IF run.segment_ids = NoArray THEN point_data
                     ELSE run.segment_ids
    /\ dirty' = FALSE
    /\ UNCHANGED <<landmarks, geodesic_lines, edits, set_order, flood, trial>>

_calculate_regions == Publish(compute_segment_ids(landmarks, geodesic_lines))

(***************************************************************************)
(* _remove_geodesic and _store_geodesic_actor on the geodesic dictionary.  *)
(***************************************************************************)
_remove_geodesic(lines, key) == Restrict(lines, DOMAIN lines \ {key})

_store_geodesic_actor(lines, key, polyline) == (key :> polyline) @@ lines

(***************************************************************************)
(* _remove_dependent_geodesics: the dependency table, applied in order.    *)
(***************************************************************************)
(* Variant of the table in which AB_posterior does not depend on E.        *)
dependenciesUneven ==
    << <<"AB_anterior", {"A", "B", "C", "E"}>>, <<"AB_posterior", {"A", "B", "C"}>>,
       <<"CD_anterior", {"A", "C", "D", "E"}>>, <<"CD_posterior", {"A", "C", "D", "E"}>>,
       <<"AC", {"A", "C"}>>, <<"BD", {"B", "D"}>>, <<"CE", {"C", "E"}>>,
       <<"AF", {"A", "F"}>>, <<"BH", {"B", "H"}>>, <<"DI", {"D", "I"}>>,
       <<"LAA1_LAA2_anterior", {"LAA1", "LAA2", "D", "F"}>>,
       <<"LAA1_LAA2_posterior", {"LAA1", "LAA2", "D", "F"}>>,
       <<"X1_X2_anterior", {"X1", "X2", "D", "F"}>>,
       <<"X1_X2_posterior", {"X1", "X2", "D", "F"}>>,
       <<"EF_aniso", {"E", "F", "H", "I"}>>, <<"FH_aniso", {"E", "F", "H", "I"}>>,
       <<"HI_aniso", {"E", "F", "H", "I"}>>, <<"IE_aniso", {"E", "F", "H", "I"}>> >>

dependencies ==
    << <<"AB_anterior", {"A", "B", "C", "E"}>>, <<"AB_posterior", {"A", "B", "C", "E"}>>,
       <<"CD_anterior", {"A", "C", "D", "E"}>>, <<"CD_posterior", {"A", "C", "D", "E"}>>,
       <<"AC", {"A", "C"}>>, <<"BD", {"B", "D"}>>, <<"CE", {"C", "E"}>>,
       <<"AF", {"A", "F"}>>, <<"BH", {"B", "H"}>>, <<"DI", {"D", "I"}>>,
       <<"LAA1_LAA2_anterior", {"LAA1", "LAA2", "D", "F"}>>,
       <<"LAA1_LAA2_posterior", {"LAA1", "LAA2", "D", "F"}>>,
       <<"X1_X2_anterior", {"X1", "X2", "D", "F"}>>,
       <<"X1_X2_posterior", {"X1", "X2", "D", "F"}>>,
       <<"EF_aniso", {"E", "F", "H", "I"}>>, <<"FH_aniso", {"E", "F", "H", "I"}>>,
       <<"HI_aniso", {"E", "F", "H", "I"}>>, <<"IE_aniso", {"E", "F", "H", "I"}>> >>

RECURSIVE RemoveDependent(_, _, _)
RemoveDependent(lines, landmark_key, n) ==
    IF n > Len(dependencies) THEN lines
    ELSE RemoveDependent(IF landmark_key \in dependencies[n][2]
                         THEN _remove_geodesic(lines, dependencies[n][1])
                         ELSE lines,
                         landmark_key, n + 1)

_remove_dependent_geodesics(lines, landmark_key) == RemoveDependent(lines, landmark_key, 1)

(***************************************************************************)
(* _delete_current_landmark, key being the key of the current step: the    *)
(* landmark is popped and its dependent geodesics are removed.             *)
(***************************************************************************)
_delete_current_landmark(key) ==
    /\ edits < MaxEdits
    /\ key \in DOMAIN landmarks
    /\ landmarks' = Restrict(landmarks, DOMAIN landmarks \ {key})
    /\ geodesic_lines' = _remove_dependent_geodesics(geodesic_lines, key)
    /\ dirty' = TRUE
    /\ edits' = edits + 1
    /\ UNCHANGED <<last_segment_ids, last_segment_error, point_data, call, set_order,
                   flood, trial>>

(***************************************************************************)
(* The update of one single curve (_update_simple_geodesic, and the same   *)
(* steps in the loop over the four ring curves): the stored curve is       *)
(* removed, the path search runs, and its polyline is stored when one was  *)
(* found.  The search result is an input: no path, the path of the         *)
(* session, or a path of one point (start and end at the same vertex).     *)
(* _update_geodesics runs the update only with the landmarks of            *)
(* CurveLandmarks(key) placed.                                             *)
(***************************************************************************)
CurveLandmarks(key) ==
    CASE key = "AC" -> {"A", "C"}
      [] key = "BD" -> {"B", "D"}
      [] key = "CE" -> {"C", "E"}
      [] key = "AF" -> {"A", "F"}
      [] key = "BH" -> {"B", "H"}
      [] key = "DI" -> {"D", "I"}
      [] OTHER -> {"E", "F", "H", "I"}

SingleCurves ==
    {"AC", "BD", "CE", "AF", "BH", "DI", "EF_aniso", "FH_aniso", "HI_aniso", "IE_aniso"}

NoPolyline == [haspoints |-> FALSE, haslines |-> FALSE, points |-> << >>, lines |-> << >>]

SearchResults(key) ==
    {NoPolyline, PathPolyline(WallPaths[key]), PathPolyline(<<WallPaths[key][1]>>)}

_update_simple_geodesic(key, result) ==
    /\ edits < MaxEdits
    /\ CurveLandmarks(key) \subseteq DOMAIN landmarks
    /\ geodesic_lines' =
           IF result = NoPolyline THEN _remove_geodesic(geodesic_lines, key)
           ELSE _store_geodesic_actor(_remove_geodesic(geodesic_lines, key), key, result)
    /\ dirty' = TRUE
    /\ edits' = edits + 1
    /\ UNCHANGED <<landmarks, last_segment_ids, last_segment_error, point_data, call,
                   set_order, flood, trial>>

(***************************************************************************)
(* _update_landmark_pair_geodesics: both curves of the pair are removed,   *)
(* the primary one is stored under the side the search resolved it to, and *)
(* the alternate one only when it was found.                               *)
(***************************************************************************)
PairPrefixes == {"AB", "CD", "LAA1_LAA2"}

PairKey(name_prefix, side) ==
    CASE name_prefix = "AB" /\ side = "anterior" -> "AB_anterior"
      [] name_prefix = "AB" /\ side = "posterior" -> "AB_posterior"
      [] name_prefix = "CD" /\ side = "anterior" -> "CD_anterior"
      [] name_prefix = "CD" /\ side = "posterior" -> "CD_posterior"
      [] name_prefix = "LAA1_LAA2" /\ side = "anterior" -> "LAA1_LAA2_anterior"
      [] name_prefix = "LAA1_LAA2" /\ side = "posterior" -> "LAA1_LAA2_posterior"
      [] name_prefix = "A1_A2" /\ side = "anterior" -> "A1_A2_anterior"
      [] name_prefix = "A1_A2" /\ side = "posterior" -> "A1_A2_posterior"
      [] name_prefix = "X1_X2" /\ side = "anterior" -> "X1_X2_anterior"
      [] name_prefix = "X1_X2" /\ side = "posterior" -> "X1_X2_posterior"

OtherSide(side) == IF side = "anterior" THEN "posterior" ELSE "anterior"

_update_landmark_pair_geodesics(name_prefix, primary_side, primary, alternate) ==
    LET anterior_key == PairKey(name_prefix, "anterior")
        posterior_key == PairKey(name_prefix, "posterior")
        resolved_primary == PairKey(name_prefix, primary_side)
        resolved_alternate == PairKey(name_prefix, OtherSide(primary_side))
        removed == _remove_geodesic(_remove_geodesic(geodesic_lines, anterior_key),
                                    posterior_key)
        stored == _store_geodesic_actor(removed, resolved_primary, primary)
    IN  /\ edits < MaxEdits
        /\ geodesic_lines' =
               IF alternate = NoPolyline THEN stored
               ELSE _store_geodesic_actor(stored, resolved_alternate, alternate)
        /\ dirty' = TRUE
        /\ edits' = edits + 1
        /\ UNCHANGED <<landmarks, last_segment_ids, last_segment_error, point_data, call,
                       set_order, flood, trial>>

(***************************************************************************)
(* The paths a pair search can give in the session: the stored path of     *)
(* each side (the appendage pair at the site its landmarks were picked).   *)
(* _update_geodesics runs a pair update only with the landmarks of         *)
(* PairLandmarks(name_prefix) placed.                                      *)
(***************************************************************************)
PairLandmarks(name_prefix) ==
    IF name_prefix = "LAA1_LAA2" THEN {"LAA1", "LAA2", "D", "F"}
    ELSE {"A", "B", "C", "D", "E"}

PairPath(name_prefix, side) ==
    LET key == PairKey(name_prefix, side)
    IN  IF name_prefix # "LAA1_LAA2" THEN PathPolyline(WallPaths[key])
        ELSE IF landmarks["LAA1"] = GetPoint(AppendagePicks("inferior").LAA1)
        THEN PathPolyline(AppendagePaths("inferior")[key])
        ELSE PathPolyline(AppendagePaths("lateral")[key])

PairUpdate ==
    \E name_prefix \in PairPrefixes, primary_side \in {"anterior", "posterior"},
       found \in BOOLEAN :
        /\ PairLandmarks(name_prefix) \subseteq DOMAIN landmarks
        /\ _update_landmark_pair_geodesics(
               name_prefix, primary_side, PairPath(name_prefix, primary_side),
               IF found THEN PairPath(name_prefix, OtherSide(primary_side))
               ELSE NoPolyline)

Next ==
    \/ _calculate_regions
    \/ \E key \in DOMAIN landmarks : _delete_current_landmark(key)
    \/ \E key \in SingleCurves : \E result \in SearchResults(key) :
          _update_simple_geodesic(key, result)
    \/ PairUpdate

Spec == Init /\ [][Next]_vars

(***************************************************************************)
(* _collect_component on its own: any graph on FloodVertices vertices      *)
(* given by its line cells, any seed, any boundary set and any blocked set *)
(* (None or a set); the one action is the call.                            *)
(***************************************************************************)
FloodVertices == 3

FloodIds == 0 .. (FloodVertices - 1)

FloodCells == {cell \in FloodIds \X FloodIds : cell[1] < cell[2]}

FloodInit ==
    /\ \E cells \in SUBSET FloodCells, seed_id \in FloodIds,
          boundary_ids \in SUBSET FloodIds,
          blocked_ids \in {None} \cup {Some(b) : b \in SUBSET FloodIds} :
           flood = [adjacency |-> AdjacencyOf(FloodVertices, cells), seed_id |-> seed_id,
                    boundary_ids |-> boundary_ids, blocked_ids |-> blocked_ids,
                    returned |-> None]
    /\ landmarks = << >>
    /\ geodesic_lines = << >>
    /\ last_segment_ids = NoArray
    /\ last_segment_error = NoMessage
    /\ point_data = NoArray
    /\ call = NoRun
    /\ dirty = TRUE
    /\ edits = 0
    /\ set_order = "asc"
    /\ trial = NoTrial

FloodCall ==
    /\ flood.returned.none
    /\ flood' = [flood EXCEPT !.returned =
                     Some(_collect_component(flood.seed_id, flood.adjacency,
                                             flood.boundary_ids, flood.blocked_ids))]
    /\ UNCHANGED <<landmarks, geodesic_lines, last_segment_ids, last_segment_error,
                   point_data, call, dirty, edits, set_order, trial>>

FloodNext == FloodCall

FloodSpec == FloodInit /\ [][FloodNext]_vars

(***************************************************************************)
(* _collect_component on a flat rectangular grid of w columns and h rows   *)
(* (vertex y * w + x at column x, row y), each square one four-sided       *)
(* polygon or two triangles, with the vertices of one inner column as the  *)
(* boundary and the seed off that column; and, in the same specification,  *)
(* on the graphs of FloodInit.                                             *)
(***************************************************************************)
GridPolys(w, h, kind) ==
    UNION {LET v == y * w + x
           IN  IF kind = "quads" THEN {<<v, v + 1, v + w + 1, v + w>>}
               ELSE {<<v, v + 1, v + w + 1>>, <<v, v + w + 1, v + w>>} :
              <<x, y>> \in (0 .. w - 2) \X (0 .. h - 2)}

GridInit ==
    /\ \E size \in {<<3, 2>>, <<3, 3>>, <<4, 3>>, <<5, 3>>},
          kind \in {"quads", "triangles"} :
          \E c \in 1 .. size[1] - 2, seed_id \in 0 .. size[1] * size[2] - 1 :
             /\ seed_id % size[1] # c
             /\ flood = [adjacency |-> AdjacencyOf(size[1] * size[2],
                                                  GridPolys(size[1], size[2], kind)),
                         seed_id |-> seed_id,
                         boundary_ids |-> {y * size[1] + c : y \in 0 .. size[2] - 1},
                         blocked_ids |-> None, returned |-> None,
                         grid |-> [w |-> size[1], h |-> size[2], c |-> c]]
    /\ set_order = "asc"
    /\ trial = NoTrial
    /\ landmarks = << >>
    /\ geodesic_lines = << >>
    /\ last_segment_ids = NoArray
    /\ last_segment_error = NoMessage
    /\ point_data = NoArray
    /\ call = NoRun
    /\ dirty = TRUE
    /\ edits = 0

ComponentSpec == (FloodInit \/ GridInit) /\ [][FloodNext]_vars

(***************************************************************************)
(* Vectors of geodesics.py.  Coordinates are integers; a vector that went  *)
(* through normalize is kept as dir / sqrt(div2), so that the division by  *)
(* the magnitude is exact: Raw(v) is v itself, normalize(v) is v over its  *)
(* magnitude and the zero vector for the zero vector.  Sqrt is the square  *)
(* root, taken only of squares.                                            *)
(***************************************************************************)
Raw(v) == [dir |-> v, div2 |-> 1]

Sqrt(n) == CHOOSE r \in 0 .. n : r * r = n

Abs(x) == IF x < 0 THEN 0 - x ELSE x

dot(a, b) == a[1] * b[1] + a[2] * b[2] + a[3] * b[3]

sub(a, b) == <<a[1] - b[1], a[2] - b[2], a[3] - b[3]>>

cross(a, b) ==
    <<a[2] * b[3] - a[3] * b[2], a[3] * b[1] - a[1] * b[3], a[1] * b[2] - a[2] * b[1]>>

normalize(vec) ==
    IF dot(vec, vec) = 0 THEN Raw(<<0, 0, 0>>)
    ELSE [dir |-> vec, div2 |-> dot(vec, vec)]

(***************************************************************************)
(* The surfaces of the path searches: the points below (a 3-4-5 rectangle, *)
(* a point 12 above one corner and a second point at the place of point    *)
(* 0), no points at all, and any set of the polygons of SearchPolys, whose *)
(* vertices are at whole distances from one another.                       *)
(***************************************************************************)
SearchPoints ==
    << <<0, 0, 0>>, <<3, 0, 0>>, <<3, 4, 0>>, <<0, 4, 0>>, <<3, 4, 12>>, <<0, 0, 0>> >>

SearchPolys ==
    {<<0, 1, 2>>, <<0, 2, 3>>, <<1, 2, 3>>, <<0, 2, 4>>, <<0, 1, 2, 3>>, <<5, 0, 1>>}

SearchNormals == {<<0, 0, 0>>, <<0, 0, 1>>, <<3, 4, 0>>}

MaxPenalty == 1

Length(points, a, b) ==
    Sqrt(dot(sub(points[b + 1], points[a + 1]), sub(points[b + 1], points[a + 1])))

(***************************************************************************)
(* compute_anisotropic_geodesic.  Distances are kept multiplied by the     *)
(* magnitude of the normal (by 1 for the zero normal), which leaves every  *)
(* comparison of the search as it is: the weight length * (1 +             *)
(* penalty_strength * |dir . unit_normal|) becomes length * magnitude +    *)
(* penalty_strength * |edge . normal|.  NoDist is float("inf"), heap the   *)
(* set of (distance, vertex) entries, popped smallest first.               *)
(***************************************************************************)
NoDist == 0 - 1

Weight(points, unit_normal, penalty_strength, a, b) ==
    IF unit_normal.dir = <<0, 0, 0>> THEN Length(points, a, b)
    ELSE Length(points, a, b) * Sqrt(unit_normal.div2)
         + penalty_strength * Abs(dot(sub(points[b + 1], points[a + 1]), unit_normal.dir))

(* Variant of HeapTop that pops the entry of the lowest vertex.            *)
HeapTopLowestVertex(heap) ==
    CHOOSE e \in heap : \A f \in heap : e[2] < f[2] \/ (e[2] = f[2] /\ e[1] <= f[1])

HeapTop(heap) ==
    CHOOSE e \in heap : \A f \in heap : e[1] < f[1] \/ (e[1] = f[1] /\ e[2] <= f[2])

RECURSIVE SearchLoop(_, _, _, _, _, _, _, _)
Relaxed(points, adj, unit_normal, penalty_strength, end_id, dist, prev, heap, current, better) ==
    SearchLoop(points, adj, unit_normal, penalty_strength, end_id,
               SubSeq([i \in 1 .. Len(dist) |->
                          IF (i - 1) \in better
                          THEN dist[current + 1]
                               + Weight(points, unit_normal, penalty_strength, current, i - 1)
                          ELSE dist[i]],
                      1, Len(dist)),
               SubSeq([i \in 1 .. Len(prev) |->
                          IF (i - 1) \in better THEN current ELSE prev[i]],
                      1, Len(prev)),
               heap \cup {<<dist[current + 1]
                            + Weight(points, unit_normal, penalty_strength, current, v), v>> :
                             v \in better})

Popped(points, adj, unit_normal, penalty_strength, end_id, dist, prev, heap, current_dist, current) ==
    IF current_dist # dist[current + 1]
    THEN SearchLoop(points, adj, unit_normal, penalty_strength, end_id, dist, prev, heap)
    ELSE IF current = end_id THEN prev
    ELSE Relaxed(points, adj, unit_normal, penalty_strength, end_id, dist, prev, heap,
                 current,
                 {neighbor \in adj[current + 1] :
                     /\ Length(points, current, neighbor) # 0
                     /\ \/ dist[neighbor + 1] = NoDist
                        \/ current_dist
                           + Weight(points, unit_normal, penalty_strength, current, neighbor)
                           < dist[neighbor + 1]})

SearchLoop(points, adj, unit_normal, penalty_strength, end_id, dist, prev, heap) ==
    IF heap = {} THEN prev
    ELSE Popped(points, adj, unit_normal, penalty_strength, end_id, dist, prev,
                heap \ {HeapTop(heap)}, HeapTop(heap)[1], HeapTop(heap)[2])

RECURSIVE TraceBack(_, _, _, _)
TraceBack(prev, start_id, current, path_ids) ==
    IF current = NoVertex THEN path_ids
    ELSE IF current = start_id THEN Append(path_ids, current)
    ELSE TraceBack(prev, start_id, prev[current + 1], Append(path_ids, current))

Reverse(seq) == SubSeq([i \in 1 .. Len(seq) |-> seq[Len(seq) + 1 - i]], 1, Len(seq))

(***************************************************************************)
(* What a call gives: a GeodesicResult (its point_ids), None, or an        *)
(* IndexError raised by a list index out of range; searched tells whether  *)
(* the while loop was entered.                                             *)
(***************************************************************************)
Returned(point_ids, searched) ==
    [raised |-> FALSE, none |-> FALSE, point_ids |-> point_ids, searched |-> searched]

ReturnedNone(searched) ==
    [raised |-> FALSE, none |-> TRUE, point_ids |-> << >>, searched |-> searched]

Raised(searched) ==
    [raised |-> TRUE, none |-> FALSE, point_ids |-> << >>, searched |-> searched]

PathOf(path_ids, start_id) ==
    IF path_ids[Len(path_ids)] # start_id THEN ReturnedNone(TRUE)
    ELSE Returned(Reverse(path_ids), TRUE)

PathFrom(prev, start_id, end_id) ==
    IF prev[end_id + 1] = NoVertex THEN ReturnedNone(TRUE)
    ELSE PathOf(TraceBack(prev, start_id, end_id, << >>), start_id)

PointAdjacency(n, polys, strips) ==
    AdjacencyOf(n, {cell \in polys \cup strips : Len(cell) >= 2})

compute_anisotropic_geodesic(points, polys, start_id, end_id, normal, penalty_strength) ==
    IF Len(points) = 0 THEN ReturnedNone(FALSE)
    ELSE IF start_id = end_id THEN ReturnedNone(FALSE)
    ELSE IF start_id >= Len(points) THEN Raised(FALSE)
    ELSE IF end_id >= Len(points) THEN Raised(TRUE)
    ELSE PathFrom(SearchLoop(points, PointAdjacency(Len(points), polys, {}),
                             normalize(normal), penalty_strength, end_id,
                             SubSeq([i \in 1 .. Len(points) |->
                                        IF i - 1 = start_id THEN 0 ELSE NoDist],
                                    1, Len(points)),
                             SubSeq([i \in 1 .. Len(points) |-> NoVertex], 1, Len(points)),
                             {<<0, start_id>>}),
                  start_id, end_id)

(***************************************************************************)
(* compute_geodesic: the output of vtkDijkstraGraphGeodesicPath, passed on *)
(* as it is.  The filter searches the graph of the polygon edges (each     *)
(* vertex of a polygon to the next, the last to the first) with the edge   *)
(* length as cost and traces the path back from the end vertex, so its id  *)
(* list runs from end_id to start_id; for start_id = end_id it holds that  *)
(* one vertex.  Which of several shortest paths it gives is its own        *)
(* choice: the operator is the set of results.  With a vertex id out of    *)
(* range or an end vertex that cannot be reached the filter is outside its *)
(* contract: Undefined.                                                    *)
(***************************************************************************)
EdgeAdjacency(n, polys) ==
    SubSeq([k \in 1 .. n |->
               UNION {{cell[i] : i \in {i \in DOMAIN cell :
                                           \/ cell[(i % Len(cell)) + 1] = k - 1
                                           \/ cell[((i + Len(cell) - 2) % Len(cell)) + 1]
                                              = k - 1}} : cell \in polys}],
           1, n)

RECURSIVE PathsFrom(_, _, _)
PathsFrom(adj, path, end_id) ==
    IF path[Len(path)] = end_id THEN {path}
    ELSE UNION {PathsFrom(adj, Append(path, n), end_id) :
                   n \in adj[path[Len(path)] + 1] \ Range(path)}

RECURSIVE PathLength(_, _)
PathLength(points, path) ==
    IF Len(path) < 2 THEN 0
    ELSE Length(points, path[1], path[2]) + PathLength(points, Tail(path))

Shortest(points, paths) ==
    {path \in paths : \A other \in paths : PathLength(points, path) <= PathLength(points, other)}

Undefined == [defined |-> FALSE, point_ids |-> << >>]

IdList(point_ids) == [defined |-> TRUE, point_ids |-> point_ids]

DijkstraGraphGeodesicPath(points, polys, start_id, end_id) ==
    IF start_id >= Len(points) \/ end_id >= Len(points) THEN {Undefined}
    ELSE IF PathsFrom(EdgeAdjacency(Len(points), polys), <<start_id>>, end_id) = {}
    THEN {Undefined}
    ELSE {IdList(Reverse(path)) :
             path \in Shortest(points,
                               PathsFrom(EdgeAdjacency(Len(points), polys), <<start_id>>,
                                         end_id))}

compute_geodesic(points, polys, start_id, end_id) ==
    DijkstraGraphGeodesicPath(points, polys, start_id, end_id)

(***************************************************************************)
(* The two searches on one surface, start and end (the first id past the   *)
(* points included), with a reference normal and a penalty strength for    *)
(* the anisotropic one.  trial.called holds the searches that have         *)
(* returned.                                                               *)
(***************************************************************************)
(***************************************************************************)
(* The main window as constructed, left alone by a call on its own.        *)
(***************************************************************************)
window == <<landmarks, geodesic_lines, last_segment_ids, last_segment_error,
            point_data, call, dirty, edits, flood>>

NoWindow ==
    /\ landmarks = << >>
    /\ geodesic_lines = << >>
    /\ last_segment_ids = NoArray
    /\ last_segment_error = NoMessage
    /\ point_data = NoArray
    /\ call = NoRun
    /\ dirty = TRUE
    /\ edits = 0
    /\ flood = NoFlood

PathInit ==
    /\ \E points \in {<< >>, SearchPoints}, polys \in SUBSET SearchPolys,
          start_id \in 0 .. Len(SearchPoints), end_id \in 0 .. Len(SearchPoints),
          normal \in SearchNormals, penalty_strength \in 0 .. MaxPenalty :
           /\ points = << >> => polys = {}
           /\ trial = [op |-> "search", points |-> points, polys |-> polys,
                       start_id |-> start_id, end_id |-> end_id, normal |-> normal,
                       penalty_strength |-> penalty_strength, called |-> {},
                       anisotropic |-> ReturnedNone(FALSE), geodesic |-> Undefined]
    /\ set_order = "asc"
    /\ NoWindow

CallAnisotropic ==
    /\ "anisotropic" \notin trial.called
    /\ trial' = [trial EXCEPT
                   !.called = @ \cup {"anisotropic"},
                   !.anisotropic =
                       compute_anisotropic_geodesic(trial.points, trial.polys,
                                                    trial.start_id, trial.end_id,
                                                    trial.normal, trial.penalty_strength)]
    /\ UNCHANGED <<window, set_order>>

CallGeodesic ==
    /\ "geodesic" \notin trial.called
    /\ \E result \in compute_geodesic(trial.points, trial.polys, trial.start_id,
                                      trial.end_id) :
          trial' = [trial EXCEPT !.called = @ \cup {"geodesic"}, !.geodesic = result]
    /\ UNCHANGED <<window, set_order>>

PathNext == CallAnisotropic \/ CallGeodesic

PathSpec == PathInit /\ [][PathNext]_vars

(***************************************************************************)
(* plane_side.  The normal is dir / sqrt(div2): the sign of the dot        *)
(* product is the sign of dir . (point - plane_point).  scale multiplies   *)
(* a vector by a whole number.                                             *)
(***************************************************************************)
(* Variant of plane_side that gives -1 on the plane.                       *)
plane_sideStrict(plane_point, normal, point) ==
    IF dot(normal.dir, sub(point, plane_point)) > 0 THEN 1 ELSE 0 - 1

plane_side(plane_point, normal, point) ==
    IF dot(normal.dir, sub(point, plane_point)) >= 0 THEN 1 ELSE 0 - 1

scale(a, k) == <<a[1] * k, a[2] * k, a[3] * k>>

(***************************************************************************)
(* plane_side called with a normal, with the normal times a positive       *)
(* factor and with the normal negated, on one plane point and one point.   *)
(* trial.side holds the calls that have returned.                          *)
(***************************************************************************)
MaxFactor == 2

Coordinates == {<<x, y, z>> : x \in {0 - 1, 0, 1}, y \in {0 - 1, 0, 1}, z \in {0 - 1, 0, 1}}

SideNormal(how) ==
    CASE how = "given" -> trial.normal
      [] how = "scaled" -> scale(trial.normal, trial.factor)
      [] how = "negated" -> scale(trial.normal, 0 - 1)

SideInit ==
    /\ \E plane_point \in {<<0, 0, 0>>, <<1, 0, 0 - 1>>}, normal \in Coordinates,
          point \in Coordinates, factor \in 1 .. MaxFactor :
           trial = [op |-> "plane_side", plane_point |-> plane_point, normal |-> normal,
                    point |-> point, factor |-> factor, side |-> << >>]
    /\ set_order = "asc"
    /\ NoWindow

CallPlaneSide ==
    /\ \E how \in {"given", "scaled", "negated"} \ DOMAIN trial.side :
          trial' = [trial EXCEPT
                      !.side = (how :> plane_side(trial.plane_point, Raw(SideNormal(how)),
                                                  trial.point)) @@ @]
    /\ UNCHANGED <<window, set_order>>

SideSpec == SideInit /\ [][CallPlaneSide]_vars

(***************************************************************************)
(* create_pair_geodesics.  closest_point_id is the locator's answer on     *)
(* the surface's points (the lowest id among the closest);                 *)
(* polyline_midpoint is the point at index n // 2 of the primary           *)
(* polyline, whose points are in the order of the id list, and (0,0,0)     *)
(* for a polyline without points.  compute_clipped_geodesic hands the      *)
(* clipper a plane through plane_point whose normal is the given normal    *)
(* for keep_side > 0 and its negation otherwise; the clipper keeps the     *)
(* part of the surface where plane_normal . (p - plane_point) > 0.  What   *)
(* the search on the clipped surface finds is an input (found).            *)
(***************************************************************************)
closest_point_id(points, point) ==
    CHOOSE i \in 0 .. Len(points) - 1 :
        \A j \in 0 .. Len(points) - 1 :
            LET di == dot(sub(points[i + 1], point), sub(points[i + 1], point))
                dj == dot(sub(points[j + 1], point), sub(points[j + 1], point))
            IN  di < dj \/ (di = dj /\ i <= j)

polyline_midpoint(points, point_ids) ==
    IF point_ids = << >> THEN <<0, 0, 0>>
    ELSE points[point_ids[(Len(point_ids) \div 2) + 1] + 1]

compute_clipped_geodesic(plane_point, normal, keep_side, found) ==
    [plane_point |-> plane_point,
     plane_normal |-> IF keep_side > 0 THEN normal
                      ELSE [normal EXCEPT !.dir = scale(@, 0 - 1)],
     found |-> found]

(* Variant of create_pair_geodesics that keeps the side away from the      *)
(* reference point in both branches.                                       *)
create_pair_geodesicsAwayFromRef(plane_origin, normal, ref_point, midpoint, found) ==
    LET ref_side == plane_side(plane_origin, normal, ref_point)
        mid_side == plane_side(plane_origin, normal, midpoint)
    IN  [primary_side |-> IF mid_side = ref_side THEN "anterior" ELSE "posterior",
         alternate_side |-> IF mid_side = ref_side THEN "posterior" ELSE "anterior",
         ref_side |-> ref_side, mid_side |-> mid_side, midpoint |-> midpoint,
         opposite_side |-> 0 - ref_side,
         alternate |-> compute_clipped_geodesic(plane_origin, normal, 0 - ref_side, found)]

create_pair_geodesics(plane_origin, normal, ref_point, midpoint, found) ==
    LET ref_side == plane_side(plane_origin, normal, ref_point)
        mid_side == plane_side(plane_origin, normal, midpoint)
        opposite_side == IF mid_side = ref_side THEN 0 - ref_side ELSE ref_side
    IN  [primary_side |-> IF mid_side = ref_side THEN "anterior" ELSE "posterior",
         alternate_side |-> IF mid_side = ref_side THEN "posterior" ELSE "anterior",
         ref_side |-> ref_side, mid_side |-> mid_side, midpoint |-> midpoint,
         opposite_side |-> opposite_side,
         alternate |-> compute_clipped_geodesic(plane_origin, normal, opposite_side,
                                                found)]

(***************************************************************************)
(* A pair search from A to B on a surface of SearchPoints, with the plane  *)
(* through A, B and C, its origin at A and the reference point E, all      *)
(* picked on vertices of the surface.  Where the isotropic search is       *)
(* outside its contract the primary polyline is unknown: its midpoint is   *)
(* (0,0,0) or any point of the surface.                                    *)
(***************************************************************************)
PairInit ==
    /\ \E polys \in SUBSET SearchPolys, a \in 0 .. 4, b \in 0 .. 4, c \in {2, 4},
          e \in {3, 4} :
           trial = [op |-> "create_pair_geodesics", polys |-> polys,
                    landmarks |-> [k \in {"A", "B", "C", "E"} |->
                                     SearchPoints[(CASE k = "A" -> a [] k = "B" -> b
                                                     [] k = "C" -> c [] k = "E" -> e) + 1]],
                    called |-> FALSE, pair |-> << >>]
    /\ set_order = "asc"
    /\ NoWindow

CallPair ==
    /\ ~trial.called
    /\ LET lm == trial.landmarks
           normal == normalize(cross(sub(lm["B"], lm["A"]), sub(lm["C"], lm["A"])))
       IN  \E primary \in compute_geodesic(SearchPoints, trial.polys,
                                           closest_point_id(SearchPoints, lm["A"]),
                                           closest_point_id(SearchPoints, lm["B"])),
              found \in BOOLEAN :
             \E midpoint \in IF primary.defined
                             THEN {polyline_midpoint(SearchPoints, primary.point_ids)}
                             ELSE {<<0, 0, 0>>} \cup Range(SearchPoints) :
                trial' = [trial EXCEPT
                            !.called = TRUE,
                            !.pair = create_pair_geodesics(lm["A"], normal, lm["E"],
                                                           midpoint, found)]
    /\ UNCHANGED <<window, set_order>>

PairSpec == PairInit /\ [][CallPair]_vars

(***************************************************************************)
(* _collect_boundary_ids on its own: a store over the keys AC and BD in    *)
(* which a key is absent or holds a polyline without points object,        *)
(* without lines object, with points and no cell, with one cell of one     *)
(* point, or with a path of the session; any list of these keys is named.  *)
(***************************************************************************)
StoredPolylines(key) ==
    {NoPolyline,
     [PathPolyline(WallPaths[key]) EXCEPT !.haslines = FALSE, !.lines = << >>],
     [PathPolyline(WallPaths[key]) EXCEPT !.lines = << >>],
     PathPolyline(<<WallPaths[key][1]>>),
     PathPolyline(WallPaths[key])}

BoundaryInit ==
    /\ \E keys \in SUBSET {"AC", "BD"},
          boundary_keys \in {<< >>, <<"AC">>, <<"BD">>, <<"AC", "BD">>, <<"BD", "AC">>} :
          \E ac \in StoredPolylines("AC"), bd \in StoredPolylines("BD") :
             trial = [op |-> "_collect_boundary_ids",
                      geodesic_lines |-> [k \in keys |-> IF k = "AC" THEN ac ELSE bd],
                      boundary_keys |-> boundary_keys, called |-> FALSE,
                      boundary_ids |-> None]
    /\ set_order = "asc"
    /\ NoWindow

CallBoundary ==
    /\ ~trial.called
    /\ trial' = [trial EXCEPT
                   !.called = TRUE,
                   !.boundary_ids = _collect_boundary_ids(trial.geodesic_lines,
                                                          trial.boundary_keys)]
    /\ UNCHANGED <<window, set_order>>

BoundarySpec == BoundaryInit /\ [][CallBoundary]_vars

(***************************************************************************)
(* _find_non_boundary_seed on its own: any graph on FloodVertices          *)
(* vertices, any start, any boundary set and any blocked set (None or a    *)
(* set), in either iteration order of the neighbour sets.                  *)
(***************************************************************************)
SeedInit ==
    /\ \E cells \in SUBSET FloodCells, start_id \in FloodIds,
          boundary_ids \in SUBSET FloodIds,
          blocked_ids \in {None} \cup {Some(b) : b \in SUBSET FloodIds} :
           trial = [op |-> "_find_non_boundary_seed",
                    adjacency |-> AdjacencyOf(FloodVertices, cells),
                    start_id |-> start_id, boundary_ids |-> boundary_ids,
                    blocked_ids |-> blocked_ids, called |-> FALSE, returned |-> NoVertex]
    /\ set_order \in {"asc", "desc"}
    /\ NoWindow

SeedCall ==
    /\ ~trial.called
    /\ trial' = [trial EXCEPT
                   !.called = TRUE,
                   !.returned = _find_non_boundary_seed(trial.start_id, trial.adjacency,
                                                        trial.boundary_ids,
                                                        trial.blocked_ids)]
    /\ UNCHANGED <<window, set_order>>

SeedSpec == SeedInit /\ [][SeedCall]_vars

(***************************************************************************)
(* _build_point_adjacency on its own: a surface of FloodVertices points    *)
(* whose polygons are up to two cells and whose strips are up to one cell, *)
(* a cell being any list of up to three point ids (repeated ids and cells  *)
(* of fewer than two ids included).                                        *)
(***************************************************************************)
AdjacencyCells == UNION {[1 .. k -> FloodIds] : k \in 0 .. 3}

AdjacencyInit ==
    /\ \E p1 \in AdjacencyCells, p2 \in AdjacencyCells :
          \E polys \in {{}, {p1, p2}}, strips \in {{}, {p1}, {p2}} :
             trial = [op |-> "_build_point_adjacency", polys |-> polys, strips |-> strips,
                      called |-> FALSE, adjacency |-> << >>]
    /\ set_order = "asc"
    /\ NoWindow

CallAdjacency ==
    /\ ~trial.called
    /\ trial' = [trial EXCEPT
                   !.called = TRUE,
                   !.adjacency = PointAdjacency(FloodVertices, trial.polys, trial.strips)]
    /\ UNCHANGED <<window, set_order>>

AdjacencySpec == AdjacencyInit /\ [][CallAdjacency]_vars

(***************************************************************************)
(* The loops of the searches, one pass at a time.  trial.pc is "call"      *)
(* before the function is entered, "while" in its while loop, "trace" in   *)
(* the loop that follows prev back from end_id, and "done" once it has     *)
(* returned.  The anisotropic search runs on SearchPoints with any of the  *)
(* search polygons and the penalty MaxPenalty; the seed search and the     *)
(* flood fill run on any graph over three vertices, walls being            *)
(* boundary_ids and blocked_ids together.                                  *)
(***************************************************************************)
LoopInit ==
    /\ \/ \E polys \in SUBSET SearchPolys, start_id \in {0, 5}, end_id \in {0, 2, 4},
             normal \in {<<0, 0, 0>>, <<0, 0, 1>>} :
             trial = [op |-> "compute_anisotropic_geodesic", pc |-> "call",
                      adj |-> PointAdjacency(Len(SearchPoints), polys, {}),
                      start_id |-> start_id, end_id |-> end_id,
                      unit_normal |-> normalize(normal), walls |-> {},
                      dist |-> << >>, prev |-> << >>, heap |-> {}, queue |-> << >>,
                      visited |-> {}, path_ids |-> << >>, current |-> NoVertex]
          /\ set_order = "asc"
       \/ \E op \in {"_find_non_boundary_seed", "_collect_component"},
             cells \in SUBSET {<<0, 1>>, <<0, 2>>, <<1, 2>>}, start_id \in 0 .. 2,
             walls \in SUBSET (0 .. 2) :
             trial = [op |-> op, pc |-> "call", adj |-> AdjacencyOf(3, cells),
                      start_id |-> start_id, end_id |-> NoVertex,
                      unit_normal |-> Raw(<<0, 0, 0>>), walls |-> walls,
                      dist |-> << >>, prev |-> << >>, heap |-> {}, queue |-> << >>,
                      visited |-> {}, path_ids |-> << >>, current |-> NoVertex]
          /\ set_order \in {"asc", "desc"}
    /\ NoWindow

LoopBegin ==
    /\ trial.pc = "call"
    /\ trial' =
           CASE trial.op = "compute_anisotropic_geodesic" ->
                   IF trial.start_id = trial.end_id THEN [trial EXCEPT !.pc = "done"]
                   ELSE [trial EXCEPT
                           !.pc = "while",
                           !.dist = SubSeq([i \in 1 .. Len(SearchPoints) |->
                                               IF i - 1 = trial.start_id THEN 0
                                               ELSE NoDist],
                                           1, Len(SearchPoints)),
                           !.prev = SubSeq([i \in 1 .. Len(SearchPoints) |-> NoVertex],
                                           1, Len(SearchPoints)),
                           !.heap = {<<0, trial.start_id>>}]
             [] trial.op = "_find_non_boundary_seed" /\ trial.start_id \notin trial.walls ->
                   [trial EXCEPT !.pc = "done", !.current = trial.start_id]
             [] OTHER ->
                   [trial EXCEPT !.pc = "while", !.visited = {trial.start_id},
                                 !.queue = <<trial.start_id>>]
    /\ UNCHANGED <<window, set_order>>

SearchStep ==
    /\ trial.op = "compute_anisotropic_geodesic"
    /\ trial.pc = "while"
    /\ LET top == HeapTop(trial.heap)
           after == [trial EXCEPT
                       !.pc = IF trial.prev[trial.end_id + 1] = NoVertex THEN "done"
                              ELSE "trace",
                       !.current = trial.end_id]
           better == {neighbor \in trial.adj[top[2] + 1] :
                         /\ Length(SearchPoints, top[2], neighbor) # 0
                         /\ \/ trial.dist[neighbor + 1] = NoDist
                            \/ top[1] + Weight(SearchPoints, trial.unit_normal, MaxPenalty,
                                               top[2], neighbor)
                               < trial.dist[neighbor + 1]}
       IN  trial' =
               IF trial.heap = {} THEN after
               ELSE IF top[1] # trial.dist[top[2] + 1]
               THEN [trial EXCEPT !.heap = @ \ {top}]
               ELSE IF top[2] = trial.end_id THEN after
               ELSE [trial EXCEPT
                       !.heap = (@ \ {top})
                                \cup {<<top[1] + Weight(SearchPoints, trial.unit_normal,
                                                        MaxPenalty, top[2], v), v>> :
                                         v \in better},
                       !.dist = SubSeq([i \in 1 .. Len(@) |->
                                           IF (i - 1) \in better
                                           THEN top[1] + Weight(SearchPoints,
                                                                trial.unit_normal,
                                                                MaxPenalty, top[2], i - 1)
                                           ELSE @[i]],
                                       1, Len(@)),
                       !.prev = SubSeq([i \in 1 .. Len(@) |->
                                           IF (i - 1) \in better THEN top[2] ELSE @[i]],
                                       1, Len(@))]
    /\ UNCHANGED <<window, set_order>>

TraceStep ==
    /\ trial.pc = "trace"
    /\ trial' =
           IF trial.current = NoVertex THEN [trial EXCEPT !.pc = "done"]
           ELSE IF trial.current = trial.start_id
           THEN [trial EXCEPT !.pc = "done", !.path_ids = Append(@, trial.current)]
           ELSE [trial EXCEPT !.path_ids = Append(@, trial.current),
                              !.current = trial.prev[trial.current + 1]]
    /\ UNCHANGED <<window, set_order>>

SeedStep ==
    /\ trial.op = "_find_non_boundary_seed"
    /\ trial.pc = "while"
    /\ LET unvisited == SelectSeq(SetIter(trial.adj[Head(trial.queue) + 1]),
                                  LAMBDA neighbor : neighbor \notin trial.visited)
           free == SelectSeq(unvisited, LAMBDA neighbor : neighbor \notin trial.walls)
       IN  trial' =
               IF trial.queue = << >> THEN [trial EXCEPT !.pc = "done"]
               ELSE IF free # << >> THEN [trial EXCEPT !.pc = "done", !.current = free[1]]
               ELSE [trial EXCEPT !.queue = Tail(@) \o unvisited,
                                  !.visited = @ \cup Range(unvisited)]
    /\ UNCHANGED <<window, set_order>>

(* Variant of FloodStep that reads the head of the queue and leaves it     *)
(* there.                                                                  *)
FloodStepKeepsHead ==
    /\ trial.op = "_collect_component"
    /\ trial.pc = "while"
    /\ LET fresh == SelectSeq(SetIter(trial.adj[Head(trial.queue) + 1]),
                              LAMBDA neighbor : /\ neighbor \notin trial.visited
                                                /\ neighbor \notin trial.walls)
       IN  trial' =
               IF trial.queue = << >> THEN [trial EXCEPT !.pc = "done"]
               ELSE [trial EXCEPT !.queue = @ \o fresh,
                                  !.visited = @ \cup Range(fresh)]
    /\ UNCHANGED <<window, set_order>>

FloodStep ==
    /\ trial.op = "_collect_component"
    /\ trial.pc = "while"
    /\ LET fresh == SelectSeq(SetIter(trial.adj[Head(trial.queue) + 1]),
                              LAMBDA neighbor : /\ neighbor \notin trial.visited
                                                /\ neighbor \notin trial.walls)
       IN  trial' =
               IF trial.queue = << >> THEN [trial EXCEPT !.pc = "done"]
               ELSE [trial EXCEPT !.queue = Tail(@) \o fresh,
                                  !.visited = @ \cup Range(fresh)]
    /\ UNCHANGED <<window, set_order>>

LoopNext == LoopBegin \/ SearchStep \/ TraceStep \/ SeedStep \/ FloodStep

(* Nothing suspends a search: a pass that can be taken is taken.           *)
LoopSpec == LoopInit /\ [][LoopNext]_vars /\ WF_vars(LoopNext)

(***************************************************************************)
(* The landmark handlers of the main window (main.py).  steps is the list  *)
(* of _build_steps without the steps whose curves repeat the shape of      *)
(* another one; a landmark is the picked mesh point, one of PickPoints.    *)
(* A stored curve is the record of the landmark positions it was computed  *)
(* from.  trial holds the fields of the window that regions.py does not    *)
(* read: current_step_index, the timers and observers of the VTK set-up,   *)
(* and what the last click did.                                            *)
(***************************************************************************)
steps == <<"A", "B", "C", "D", "E", "F", "A1", "A2", "X1", "X2">>

PickPoints == {1, 2}

MaxShows == 2

MaxClicks == 1

(***************************************************************************)
(* The branches of _update_geodesics in their order: needs are the         *)
(* landmarks the branch tests for, watch the changed landmarks that make   *)
(* it recompute, reads the landmarks the computation looks up              *)
(* (create_pair_geodesics: start, end, plane keys, reference, origin), and *)
(* drops says that the branch removes its curves when needs are not there. *)
(***************************************************************************)
_update_geodesics_branches ==
    << [name |-> "AB", pair |-> TRUE, needs |-> {"A", "B", "C", "D", "E"},
        watch |-> {"A", "B"}, reads |-> {"A", "B", "C", "E"}, drops |-> FALSE],
       [name |-> "CD", pair |-> TRUE, needs |-> {"A", "B", "C", "D", "E"},
        watch |-> {"C", "D"}, reads |-> {"A", "C", "D", "E"}, drops |-> FALSE],
       [name |-> "AC", pair |-> FALSE, needs |-> {"A", "C"},
        watch |-> {"A", "C"}, reads |-> {"A", "C"}, drops |-> FALSE],
       [name |-> "BD", pair |-> FALSE, needs |-> {"B", "D"},
        watch |-> {"B", "D"}, reads |-> {"B", "D"}, drops |-> FALSE],
       [name |-> "CE", pair |-> FALSE, needs |-> {"C", "E"},
        watch |-> {"C", "E"}, reads |-> {"C", "E"}, drops |-> FALSE],
       [name |-> "AF", pair |-> FALSE, needs |-> {"A", "F"},
        watch |-> {"A", "F"}, reads |-> {"A", "F"}, drops |-> FALSE],
       [name |-> "A1_A2", pair |-> TRUE, needs |-> {"A1", "A2", "D", "F"},
        watch |-> {"A1", "A2", "D", "F"}, reads |-> {"A1", "A2", "D", "F"},
        drops |-> FALSE],
       [name |-> "X1_X2", pair |-> TRUE, needs |-> {"X1", "X2"},
        watch |-> {"X1", "X2", "D", "F"}, reads |-> {"X1", "X2", "D", "F"},
        drops |-> TRUE] >>

BranchKeys(branch) ==
    IF branch.pair
    THEN {PairKey(branch.name, "anterior"), PairKey(branch.name, "posterior")}
    ELSE {branch.name}

(* The branches that recompute: their landmarks are placed, and one of the *)
(* watched ones changed or one of their curves is not stored.              *)
Recomputed(lm, lines, changed_landmarks) ==
    {n \in DOMAIN _update_geodesics_branches :
        LET branch == _update_geodesics_branches[n]
        IN /\ branch.needs \subseteq DOMAIN lm
           /\ \/ branch.watch \cap changed_landmarks # {}
              \/ ~(BranchKeys(branch) \subseteq DOMAIN lines)}

(* What a path search can return: the side the primary curve resolves to   *)
(* and whether the second curve (the only one of a single curve) is found. *)
SearchOutcomes == [side : {"anterior", "posterior"}, found : BOOLEAN]

(***************************************************************************)
(* One branch: the curves are removed, the landmarks are looked up         *)
(* (KeyError when one is not placed), and what the searches found is       *)
(* stored.  A pair always stores its primary curve.                        *)
(***************************************************************************)
UpdateBranch(lm, lines, branch, outcome) ==
    LET removed == Restrict(lines, DOMAIN lines \ BranchKeys(branch))
        curve == [from |-> Restrict(lm, branch.reads)]
        stored == IF branch.pair
                  THEN IF outcome.found THEN BranchKeys(branch)
                       ELSE {PairKey(branch.name, outcome.side)}
                  ELSE IF outcome.found THEN {branch.name} ELSE {}
    IN IF ~(branch.reads \subseteq DOMAIN lm)
       THEN [lines |-> removed, raised |-> TRUE]
       ELSE [lines |-> [k \in DOMAIN removed \cup stored |->
                           IF k \in stored THEN curve ELSE removed[k]],
             raised |-> FALSE]

RECURSIVE UpdateBranches(_, _, _, _, _)
UpdateBranches(lm, lines, recomputed, outcomes, n) ==
    IF n > Len(_update_geodesics_branches) THEN [lines |-> lines, raised |-> FALSE]
    ELSE LET branch == _update_geodesics_branches[n]
         IN IF n \in recomputed
            THEN LET done == UpdateBranch(lm, lines, branch, outcomes[n])
                 IN IF done.raised THEN done
                    ELSE UpdateBranches(lm, done.lines, recomputed, outcomes, n + 1)
            ELSE IF branch.drops /\ ~(branch.needs \subseteq DOMAIN lm)
            THEN UpdateBranches(lm, Restrict(lines, DOMAIN lines \ BranchKeys(branch)),
                                recomputed, outcomes, n + 1)
            ELSE UpdateBranches(lm, lines, recomputed, outcomes, n + 1)

(***************************************************************************)
(* _update_geodesics(changed_landmarks) on the dictionaries lm and lines:  *)
(* the set of its results, one for each outcome of the searches it runs.   *)
(***************************************************************************)
_update_geodesics(lm, lines, changed_landmarks) ==
    LET recomputed == Recomputed(lm, lines, changed_landmarks)
    IN {UpdateBranches(lm, lines, recomputed, outcomes, 1) :
            outcomes \in [recomputed -> SearchOutcomes]}

(***************************************************************************)
(* _set_landmark_point(point) on the window w: the landmark of the current *)
(* step is set when it moved, the geodesics are updated, and the next step *)
(* becomes the current one.  An exception leaves the handler before        *)
(* _go_next_step.                                                          *)
(***************************************************************************)
_go_next_step(index) == IF index + 1 < Len(steps) - 1 THEN index + 1 ELSE Len(steps) - 1

_set_landmark_point(w, point) ==
    LET key == steps[w.current_step_index + 1]
        moved == key \notin DOMAIN w.landmarks \/ w.landmarks[key] # point
        lm == IF moved THEN [k \in DOMAIN w.landmarks \cup {key} |->
                                IF k = key THEN point ELSE w.landmarks[k]]
              ELSE w.landmarks
    IN {[landmarks |-> lm, geodesic_lines |-> done.lines,
         current_step_index |-> IF done.raised THEN w.current_step_index
                                ELSE _go_next_step(w.current_step_index),
         raised |-> w.raised \/ done.raised,
         placed |-> w.placed + 1] :
            done \in _update_geodesics(lm, w.geodesic_lines, IF moved THEN {key} ELSE {})}

(* The observers of LeftButtonPressEvent run one after the other.          *)
RECURSIVE Observers(_, _, _)
Observers(ws, point, n) ==
    IF n = 0 THEN ws
    ELSE Observers(UNION {_set_landmark_point(w, point) : w \in ws}, point, n - 1)

(***************************************************************************)
(* The window as constructed, with or without an initial file, or after a  *)
(* session: shown once, the mesh loaded, and every step clicked in its     *)
(* order with every search finding its path.                               *)
(***************************************************************************)
SessionDone ==
    LET lm == [k \in Range(steps) |-> 1]
        stored == UNION {BranchKeys(_update_geodesics_branches[n]) :
                            n \in DOMAIN _update_geodesics_branches}
        branch_of(k) == CHOOSE n \in DOMAIN _update_geodesics_branches :
                            k \in BranchKeys(_update_geodesics_branches[n])
    IN [landmarks |-> lm,
        geodesic_lines |-> [k \in stored |->
            [from |-> Restrict(lm, _update_geodesics_branches[branch_of(k)].reads)]]]

WindowInit ==
    /\ last_segment_ids = NoArray
    /\ last_segment_error = NoMessage
    /\ point_data = NoArray
    /\ call = NoRun
    /\ dirty = TRUE
    /\ edits = 0
    /\ flood = NoFlood
    /\ set_order = "asc"
    /\ \/ /\ landmarks = << >>
          /\ geodesic_lines = << >>
          /\ \E initial_file \in BOOLEAN :
                 trial = [op |-> "window", current_step_index |-> 0,
                          _initial_file |-> initial_file, _pending_file |-> FALSE,
                          _polydata |-> FALSE, shows |-> 0, timers |-> 0,
                          observers |-> 0, loads |-> 0, clicks |-> 0,
                          raised |-> FALSE, placed |-> 0, advanced |-> 0]
       \/ /\ landmarks = SessionDone.landmarks
          /\ geodesic_lines = SessionDone.geodesic_lines
          /\ trial = [op |-> "window", current_step_index |-> Len(steps) - 1,
                      _initial_file |-> TRUE, _pending_file |-> FALSE,
                      _polydata |-> TRUE, shows |-> 1, timers |-> 0,
                      observers |-> 1, loads |-> 1, clicks |-> 0,
                      raised |-> FALSE, placed |-> 0, advanced |-> 0]

WindowFrame == UNCHANGED <<last_segment_ids, last_segment_error, point_data, call, dirty,
                           edits, flood, set_order>>

(* showEvent: the initial file becomes the pending one and the VTK set-up  *)
(* is scheduled on a timer.                                                *)
showEvent ==
    /\ trial.shows < MaxShows
    /\ trial' = [trial EXCEPT !.shows = @ + 1, !.timers = @ + 1,
                              !._pending_file = @ \/ trial._initial_file]
    /\ UNCHANGED <<landmarks, geodesic_lines>>
    /\ WindowFrame

(* _initialize_vtk, run by one of the timers: the click observer is added  *)
(* and the pending file is loaded.                                         *)
_initialize_vtk ==
    /\ trial.timers > 0
    /\ trial' = [trial EXCEPT !.timers = @ - 1, !.observers = @ + 1,
                              !._pending_file = FALSE,
                              !._polydata = @ \/ trial._pending_file,
                              !.loads = IF trial._pending_file THEN @ + 1 ELSE @]
    /\ UNCHANGED <<landmarks, geodesic_lines>>
    /\ WindowFrame

(* One click on the mesh: every registered _on_left_button_press places    *)
(* the picked point.                                                       *)
_on_left_button_press(point) ==
    /\ trial.clicks < MaxClicks
    /\ trial._polydata
    /\ trial.observers > 0
    /\ \E w \in Observers({[landmarks |-> landmarks, geodesic_lines |-> geodesic_lines,
                            current_step_index |-> trial.current_step_index,
                            raised |-> FALSE, placed |-> 0]}, point, trial.observers) :
           /\ landmarks' = w.landmarks
           /\ geodesic_lines' = w.geodesic_lines
           /\ trial' = [trial EXCEPT !.current_step_index = w.current_step_index,
                                     !.clicks = @ + 1,
                                     !.raised = w.raised, !.placed = w.placed,
                                     !.advanced = w.current_step_index
                                                  - trial.current_step_index]
    /\ WindowFrame

_on_step_changed(row) ==
    /\ row # trial.current_step_index
    /\ trial' = [trial EXCEPT !.current_step_index = row]
    /\ UNCHANGED <<landmarks, geodesic_lines>>
    /\ WindowFrame

WindowNext ==
    \/ showEvent
    \/ _initialize_vtk
    \/ \E point \in PickPoints : _on_left_button_press(point)
    \/ \E row \in 0..(Len(steps) - 1) : _on_step_changed(row)
    \/ _delete_current_landmark(steps[trial.current_step_index + 1])

WindowSpec == WindowInit /\ [][WindowNext]_vars

(***************************************************************************)
(* Properties.  Computed says that call is the result of                   *)
(* compute_segment_ids on the dictionaries as they are now (no edit since  *)
(* the last "Calculate regions"); Label(v) is the returned label of v.     *)
(***************************************************************************)
Computed == ~dirty

Label(v) == GetValue(call.segment_ids, v)

Claimed(k) == UnionOf(call.segments, 1 .. (k - 1))

(* C1: in one call of compute_segment_ids, the blocked set handed to the   *)
(* growth of every grown region k in 2..9 contains every vertex of the     *)
(* regions 1..k-1 computed earlier in that call.                           *)
C1_BlockedIsCumulativeUnion ==
    \A k \in call.grown \ {1} : Claimed(k) \subseteq OrEmpty(call.handed[k])

(* C2: no region's vertex set contains a vertex of a lower-numbered region *)
(* of the same call.                                                       *)
C2_RegionsMutuallyExclusive ==
    \A j \in DOMAIN call.segments, k \in DOMAIN call.segments :
        j < k => call.segments[j] \cap call.segments[k] = {}

MissingCurves(k) ==
    SelectSeq(SegDeps(k, geodesic_lines), LAMBDA key : key \notin DOMAIN geodesic_lines)

LabelsKept ==
    \A j \in DOMAIN call.segments : \A v \in call.segments[j] \ Claimed(j) : Label(v) = j

LandmarksAbsent(k) ==
    /\ ~RequiredLandmarks(k).none
    /\ ~(RequiredLandmarks(k).val \subseteq DOMAIN landmarks)

(* C4: a reached region whose required landmarks are not all present is    *)
(* skipped: no error names it, no vertex is assigned to it, and the region *)
(* after it is attempted.                                                  *)
C4_AbsentLandmarksSkipRegion ==
    Computed =>
        \A k \in call.visited :
            LandmarksAbsent(k)
            => /\ call.error_message.seg # k
               /\ k \notin DOMAIN call.segments
               /\ \A v \in PointIds : Label(v) # k
               /\ k < 9 => (k + 1) \in call.visited

(* Reached: a region is skipped for absent landmarks and the next one is   *)
(* grown.                                                                  *)
C4_SkippedThenGrown ==
    /\ Computed
    /\ \E k \in call.visited : LandmarksAbsent(k) /\ (k + 1) \in call.grown

(* C5 as claimed: whatever the landmarks and stored geodesics, the caller  *)
(* receives a label array.                                                 *)
C5_AlwaysALabelArray == Computed => call.segment_ids # NoArray

BaseInputs ==
    /\ {"A", "B", "C", "D", "E", "F"} \subseteq DOMAIN landmarks
    /\ {"AB_anterior", "AB_posterior", "CD_anterior", "CD_posterior"}
           \subseteq DOMAIN geodesic_lines

Unresolved == {k \in call.visited \ call.skipped : k \notin DOMAIN call.segments}

(* C5 as amended: with the six base landmarks and both AB and both CD      *)
(* curves present the caller receives a label array holding every resolved *)
(* region, and a message naming the first unresolved region exactly when   *)
(* there is one; otherwise it receives no array and only the message.      *)
C5_PartialResultWithBaseInputs ==
    Computed =>
        IF BaseInputs
        THEN /\ call.segment_ids # NoArray
             /\ LabelsKept
             /\ IF Unresolved = {} THEN call.error_message = NoMessage
                ELSE /\ call.error_message.kind # ""
                     /\ call.error_message.seg = SetMin(Unresolved)
        ELSE /\ call.segment_ids = NoArray
             /\ call.visited = {}
             /\ call.error_message.kind \in {"Missing base landmarks",
                                             "Missing AB geodesics",
                                             "Missing CD geodesics"}

(* Reached: a region failed and the returned array holds labels.           *)
C5_FailedWithLabels ==
    /\ Computed
    /\ BaseInputs
    /\ call.error_message.kind = "failed"
    /\ \E v \in PointIds : Label(v) # 0

(* C6: in the built array every vertex carries one label in 0..9, and a    *)
(* vertex in the vertex sets of several regions carries the label of the   *)
(* lowest-numbered of them.                                                *)
C6_OneLabelLowestRegionWins ==
    call.segment_ids # NoArray =>
        /\ DOMAIN call.segment_ids = 1 .. GetNumberOfPoints
        /\ \A v \in PointIds :
              /\ Label(v) \in 0 .. 9
              /\ \A k \in DOMAIN call.segments :
                    v \in call.segments[k]
                    => Label(v) = SetMin({j \in DOMAIN call.segments :
                                             v \in call.segments[j]})

(* Reached: an array was built from region sets that share a vertex.       *)
C6_VertexInTwoRegions ==
    /\ call.segment_ids # NoArray
    /\ \E j \in DOMAIN call.segments, k \in DOMAIN call.segments :
          j < k /\ call.segments[j] \cap call.segments[k] # {}

FloodWalls == flood.boundary_ids \cup OrEmpty(flood.blocked_ids)

(* C7 as claimed: the set returned by _collect_component holds no vertex   *)
(* of its boundary argument and none of its blocked argument.              *)
C7_FloodDisjointFromWalls ==
    ~flood.returned.none => flood.returned.val \cap FloodWalls = {}

(* C7 as amended: the returned set holds the seed and, apart from the      *)
(* seed, no vertex of the boundary argument and none of the blocked one.   *)
C7_FloodDisjointApartFromSeed ==
    ~flood.returned.none =>
        /\ flood.seed_id \in flood.returned.val
        /\ flood.returned.val \cap FloodWalls \subseteq {flood.seed_id}

(* Reached: a fill from a free seed took a neighbour and stopped at a      *)
(* boundary vertex and at a blocked vertex.                                *)
C7_FloodStoppedAtWall ==
    /\ ~flood.returned.none
    /\ flood.seed_id \notin FloodWalls
    /\ Cardinality(flood.returned.val) >= 2
    /\ \E v \in flood.returned.val :
          flood.adjacency[v + 1] \cap flood.boundary_ids # {}
          /\ flood.adjacency[v + 1] \cap OrEmpty(flood.blocked_ids) # {}

LabelCounts(ids, v) ==
    [seg \in 1 .. 9 |-> Cardinality({n \in adjacency[v + 1] : GetValue(ids, n) = seg})]

Majority(counts) ==
    SetMin({s \in 1 .. 9 : counts[s] = SetMax({counts[t] : t \in 1 .. 9})})

Attempts(k) == call.attempts[k]

SamePoint(p, q) == \A c \in 1 .. 3 : p.num[c] * q.den = q.num[c] * p.den

Between(k, t) ==
    [num |-> [c \in 1 .. 3 |->
                 100 * landmarks[SeedKey(k)][c]
                 + (landmarks[OppositeKey(k)][c] - landmarks[SeedKey(k)][c]) * t],
     den |-> 100]

FallbackParameters == <<25, 45, 65, 85>>

InOrderUntilFound(k) ==
    /\ Len(Attempts(k)) \in 1 .. 5
    /\ Attempts(k)[1].seed_point = SeedPoint(geodesic_lines, SegDeps(k, geodesic_lines))
    /\ \A i \in 1 .. (Len(Attempts(k)) - 1) : ~Attempts(k)[i].found
    /\ \A i \in 2 .. Len(Attempts(k)) :
          /\ ~Attempts(k)[i].seed_point.none
          /\ SamePoint(Attempts(k)[i].seed_point.p, Between(k, FallbackParameters[i - 1]))

ReportedFailed(k) == call.error_message.kind = "failed" /\ call.error_message.seg = k

IsPathFromTo(path, s, e, adj) ==
    /\ Len(path) >= 1
    /\ path[1] = s
    /\ path[Len(path)] = e
    /\ \A i \in 1 .. (Len(path) - 1) : path[i + 1] \in adj[path[i] + 1]

TrialAdjacency == PointAdjacency(Len(trial.points), trial.polys, {})

(* C12: every path returned by compute_anisotropic_geodesic and every path *)
(* returned by compute_geodesic starts at the start vertex, ends at the    *)
(* end vertex and goes from each vertex to an adjacent one.                *)
C12_PathsRunFromStartToEnd ==
    /\ ("anisotropic" \in trial.called /\ ~trial.anisotropic.raised
        /\ ~trial.anisotropic.none)
       => IsPathFromTo(trial.anisotropic.point_ids, trial.start_id, trial.end_id,
                       TrialAdjacency)
    /\ ("geodesic" \in trial.called /\ trial.geodesic.defined)
       => IsPathFromTo(trial.geodesic.point_ids, trial.start_id, trial.end_id,
                       TrialAdjacency)

(* C13: with penalty_strength = 0 or a zero-length normal the anisotropic  *)
(* search gives what compute_geodesic gives for the same surface, start    *)
(* and end: the same path when there is one, no path in the same cases.    *)
C13_ZeroPenaltyMatchesIsotropic ==
    ({"anisotropic", "geodesic"} \subseteq trial.called
     /\ (trial.penalty_strength = 0 \/ trial.normal = <<0, 0, 0>>))
    => /\ ~trial.anisotropic.raised
       /\ trial.anisotropic.none <=> ~trial.geodesic.defined
       /\ ~trial.anisotropic.none
          => trial.anisotropic.point_ids = trial.geodesic.point_ids

(* C14: with start = end, or with a start or an end that is not a vertex   *)
(* id of the surface, compute_anisotropic_geodesic returns None without    *)
(* raising and without entering the search loop.                           *)
C14_DegenerateInputsReturnNone ==
    ("anisotropic" \in trial.called
     /\ \/ trial.start_id = trial.end_id
        \/ trial.start_id >= Len(trial.points)
        \/ trial.end_id >= Len(trial.points))
    => /\ trial.anisotropic.none
       /\ ~trial.anisotropic.raised
       /\ ~trial.anisotropic.searched

SideValue == dot(trial.normal, sub(trial.point, trial.plane_point))

SidesReturned == DOMAIN trial.side = {"given", "scaled", "negated"}

(* C15 as claimed: plane_side gives the same side for the normal times a   *)
(* positive factor and the opposite side for the negated normal.           *)
C15_SideScalesAndFlips ==
    SidesReturned =>
        /\ trial.side["scaled"] = trial.side["given"]
        /\ trial.side["negated"] = 0 - trial.side["given"]

(* C15 as amended: the side is the same for the normal times a positive    *)
(* factor; for the negated normal it is the opposite side exactly when the *)
(* point is off the plane (normal . (point - plane_point) is not 0), and   *)
(* +1 for both normals when it is on the plane.                            *)
C15_SideFlipsOffThePlane ==
    SidesReturned =>
        /\ trial.side["given"] \in {1, 0 - 1}
        /\ trial.side["scaled"] = trial.side["given"]
        /\ IF SideValue # 0
           THEN trial.side["negated"] = 0 - trial.side["given"]
           ELSE trial.side["given"] = 1 /\ trial.side["negated"] = 1

(* Reached: the three calls have returned for a point on the plane of a    *)
(* normal that is not zero, scaled by a factor above 1.                    *)
C15_PointOnThePlane ==
    /\ SidesReturned
    /\ trial.normal # <<0, 0, 0>>
    /\ trial.point # trial.plane_point
    /\ trial.factor > 1
    /\ SideValue = 0

(* C16: create_pair_geodesics labels one path anterior and the other       *)
(* posterior, the primary path anterior exactly when its midpoint is on    *)
(* the reference point's side of the plane, and the clipped search keeps   *)
(* the side opposite to the midpoint's: the midpoint is not in the part    *)
(* of the surface the clipper keeps.                                       *)
C16_PairLabelsAndKeptSide ==
    trial.called =>
        LET pair == trial.pair
            plane == pair.alternate
        IN  /\ {pair.primary_side, pair.alternate_side} = {"anterior", "posterior"}
            /\ pair.primary_side = "anterior" <=> pair.mid_side = pair.ref_side
            /\ pair.opposite_side = 0 - pair.mid_side
            /\ dot(plane.plane_normal.dir, sub(pair.midpoint, plane.plane_point)) <= 0

(* Reached: a primary path whose midpoint is strictly on the other side of *)
(* the plane than the reference point, labelled posterior.                 *)
C16_PrimaryPosterior ==
    /\ trial.op = "create_pair_geodesics"
    /\ trial.called
    /\ trial.pair.primary_side = "posterior"
    /\ trial.pair.mid_side = 0 - 1
    /\ trial.pair.ref_side = 1
    /\ trial.pair.alternate.found

PairStored(lines, name_prefix) ==
    {side \in {"anterior", "posterior"} : PairKey(name_prefix, side) \in DOMAIN lines}

HasGeometry(lines_by_key, key) ==
    /\ key \in DOMAIN lines_by_key
    /\ lines_by_key[key].haspoints
    /\ Len(lines_by_key[key].points) > 0
    /\ lines_by_key[key].haslines
    /\ \E c \in DOMAIN lines_by_key[key].lines : Len(lines_by_key[key].lines[c]) >= 2

(* C18: _collect_boundary_ids returns None whenever a named geodesic is    *)
(* missing from the store or has no points or no line segment to sample,   *)
(* and a vertex set only when every named geodesic has geometry.           *)
C18_NoneWhenACurveHasNoGeometry ==
    (trial.op = "_collect_boundary_ids" /\ trial.called) =>
        (trial.boundary_ids.none
           <=> \E i \in DOMAIN trial.boundary_keys :
                  ~HasGeometry(trial.geodesic_lines, trial.boundary_keys[i]))

SeedWalls == trial.boundary_ids \cup OrEmpty(trial.blocked_ids)

(* The wall vertices connected to the vertices of reached through wall     *)
(* vertices only.                                                          *)
RECURSIVE ThroughWalls(_)
ThroughWalls(reached) ==
    LET more == {w \in SeedWalls : \E v \in reached : w \in trial.adjacency[v + 1]}
    IN  IF more \subseteq reached THEN reached ELSE ThroughWalls(reached \cup more)

PastTheWall ==
    {f \in FloodIds \ SeedWalls :
        \E w \in ThroughWalls({trial.start_id}) : f \in trial.adjacency[w + 1]}

(* C19: _find_non_boundary_seed returns start itself when start is in      *)
(* neither boundary nor blocked; otherwise it returns a vertex in neither  *)
(* set adjacent to a boundary-or-blocked vertex connected to start through *)
(* such vertices only, and None exactly when there is no such vertex.      *)
C19_SeedJustPastTheWall ==
    (trial.op = "_find_non_boundary_seed" /\ trial.called) =>
        IF trial.start_id \notin SeedWalls THEN trial.returned = trial.start_id
        ELSE IF PastTheWall = {} THEN trial.returned = NoVertex
        ELSE trial.returned \in PastTheWall

(* Reached: start is blocked and not on the boundary, and the vertex       *)
(* returned is no neighbour of start but lies past a second wall vertex.   *)
C19_SeedBehindTwoWallVertices ==
    /\ trial.op = "_find_non_boundary_seed"
    /\ trial.called
    /\ trial.start_id \in OrEmpty(trial.blocked_ids) \ trial.boundary_ids
    /\ trial.returned # NoVertex
    /\ trial.returned \notin trial.adjacency[trial.start_id + 1]

(* C20: the adjacency built by _build_point_adjacency is symmetric: v is   *)
(* in adjacency[w] if and only if w is in adjacency[v].                    *)
C20_AdjacencySymmetric ==
    (trial.op = "_build_point_adjacency" /\ trial.called) =>
        /\ Len(trial.adjacency) = FloodVertices
        /\ \A v \in FloodIds, w \in FloodIds :
              v \in trial.adjacency[w + 1] <=> w \in trial.adjacency[v + 1]

(* Reached: the adjacency of a surface with a polygon of three different   *)
(* points and a strip, in which a vertex has two neighbours.               *)
C20_TriangleAndStrip ==
    /\ trial.op = "_build_point_adjacency"
    /\ trial.called
    /\ \E cell \in trial.polys : Cardinality(Range(cell)) = 3
    /\ trial.strips # {}
    /\ \E v \in FloodIds : Cardinality(trial.adjacency[v + 1] \ {v}) >= 2

(* The locals of the growth run as attempt i of region k in the call.      *)
GrowthOf(k, i) ==
    SegmentGrowth(landmarks, geodesic_lines, SegDeps(k, geodesic_lines), OppositeKey(k),
                  SeedKey(k), call.handed[k], Attempts(k)[i].seed_point)

Growths == {GrowthOf(k, i) @@ [blocked |-> OrEmpty(call.handed[k])] :
               <<k, i>> \in {<<k, i>> \in call.grown \X (1 .. 5) : i <= Len(Attempts(k))}}

(* C21: in region growth the entry vertex found for the opposite landmark  *)
(* is not an externally blocked vertex, and the wrong-side component       *)
(* contains no externally blocked vertex.                                  *)
C21_BlockedAppliedToWrongSide ==
    Computed =>
        \A g \in Growths :
            g.opposite_seed # NoVertex =>
                /\ g.opposite_seed \notin g.blocked
                /\ g.wrong_component \cap g.blocked = {}

(* C22: every vertex set returned by _collect_segment_component is         *)
(* non-empty and contains no boundary vertex, no externally blocked        *)
(* vertex, no vertex of the wrong-side component and so not the entry      *)
(* vertex found for the opposite landmark.                                 *)
C22_ReturnedSetClearOfWalls ==
    Computed =>
        \A g \in Growths :
            ~g.result.none =>
                /\ g.result.val # {}
                /\ g.result.val \cap g.boundary = {}
                /\ g.result.val \cap g.blocked = {}
                /\ g.result.val \cap g.wrong_component = {}
                /\ g.opposite_seed \notin g.result.val

(* Reached: a growth handed earlier regions returned a set, with a         *)
(* wrong-side component and with its seed moved off the nearest vertex.    *)
C22_GrownBesideEarlierRegions ==
    /\ Computed
    /\ \E g \in Growths :
          /\ ~g.result.none
          /\ g.blocked # {}
          /\ g.wrong_component # {}
          /\ g.seed # g.seed_id

FloodFree == (0 .. Len(flood.adjacency) - 1) \ FloodWalls

(* S holds, with each of its vertices, the neighbours of it that are       *)
(* neither boundary nor blocked.                                           *)
FloodClosed(S) == \A v \in S : flood.adjacency[v + 1] \cap FloodFree \subseteq S

(* C23: for a seed in neither boundary nor blocked, _collect_component     *)
(* returns exactly the connected component of the seed among the vertices  *)
(* outside boundary and blocked: a set of such vertices holding the seed,  *)
(* closed under stepping to such a neighbour, no smaller set holding the   *)
(* seed being closed; on a grid bisected by a boundary column it is the    *)
(* vertices on the seed's side of the column.                              *)
C23_FloodIsTheSeedComponent ==
    (~flood.returned.none /\ flood.seed_id \in FloodFree) =>
        LET S == flood.returned.val
        IN  /\ flood.seed_id \in S
            /\ S \subseteq FloodFree
            /\ FloodClosed(S)
            /\ \A T \in SUBSET S : (flood.seed_id \in T /\ FloodClosed(T)) => T = S
            /\ "grid" \in DOMAIN flood =>
                  S = {v \in FloodFree :
                          (v % flood.grid.w < flood.grid.c)
                              <=> (flood.seed_id % flood.grid.w < flood.grid.c)}

(* Reached: the fill of a grid of five columns from a seed in the wider    *)
(* part returned more than the seed and its neighbours.                    *)
C23_HalfOfTheGrid ==
    /\ ~flood.returned.none
    /\ "grid" \in DOMAIN flood
    /\ flood.grid.w = 5
    /\ Cardinality(flood.returned.val) = 9
    /\ ~(flood.returned.val \subseteq flood.adjacency[flood.seed_id + 1] \cup {flood.seed_id})

(* The cost of a path under the edge cost of the anisotropic search, in    *)
(* the unit of the search's distances.                                     *)
RECURSIVE PathCost(_)
PathCost(path) ==
    IF Len(path) < 2 THEN 0
    ELSE Weight(trial.points, normalize(trial.normal), trial.penalty_strength,
                path[1], path[2])
         + PathCost(Tail(path))

NoZeroEdge(path) ==
    \A i \in 1 .. Len(path) - 1 : Length(trial.points, path[i], path[i + 1]) # 0

AnisotropicPath ==
    /\ trial.op = "search"
    /\ "anisotropic" \in trial.called
    /\ ~trial.anisotropic.raised
    /\ ~trial.anisotropic.none

(* C24 as claimed: the cost of a path returned by                          *)
(* compute_anisotropic_geodesic is minimal among all paths from start to   *)
(* end in the adjacency graph.                                             *)
C24_CostMinimalAmongAllPaths ==
    AnisotropicPath =>
        \A other \in PathsFrom(TrialAdjacency, <<trial.start_id>>, trial.end_id) :
            PathCost(trial.anisotropic.point_ids) <= PathCost(other)

(* C24 as amended: the returned path uses no edge of length zero, and its  *)
(* cost is minimal among the paths from start to end that use no edge of   *)
(* length zero.                                                            *)
C24_CostMinimalAmongPathsOfRealEdges ==
    AnisotropicPath =>
        /\ NoZeroEdge(trial.anisotropic.point_ids)
        /\ \A other \in PathsFrom(TrialAdjacency, <<trial.start_id>>, trial.end_id) :
              NoZeroEdge(other)
                  => PathCost(trial.anisotropic.point_ids) <= PathCost(other)

(* Reached: with a penalty and a normal, a path of three vertices was      *)
(* returned and another path of real edges from start to end costs more.   *)
C24_CheaperOfTwoPaths ==
    /\ AnisotropicPath
    /\ trial.penalty_strength > 0
    /\ trial.normal # <<0, 0, 0>>
    /\ Len(trial.anisotropic.point_ids) >= 3
    /\ \E other \in PathsFrom(TrialAdjacency, <<trial.start_id>>, trial.end_id) :
          /\ NoZeroEdge(other)
          /\ PathCost(other) > PathCost(trial.anisotropic.point_ids)

(* C25: on every finite mesh graph each search runs to completion: the     *)
(* loop of the anisotropic search and its path reconstruction, the entry   *)
(* vertex search and the flood fill all return after finitely many passes. *)
C25_EverySearchReturns == <>(trial.pc = "done")

(* Reached: an anisotropic search on a graph with a cycle has returned     *)
(* after its path reconstruction collected three vertices.                 *)
C25_SearchReturnedAPath ==
    /\ trial.op = "compute_anisotropic_geodesic"
    /\ trial.pc = "done"
    /\ Len(trial.path_ids) = 3
    /\ \E v \in 0 .. 5 : Cardinality(trial.adj[v + 1] \ {v}) >= 3

(***************************************************************************)
(* The landmark handlers (WindowSpec).  A stored curve carries the         *)
(* landmark positions it was computed from, so the landmarks that define   *)
(* it are the domain of its from field.                                    *)
(***************************************************************************)

(* C26: in every reachable state each stored geodesic has all of its       *)
(* defining landmarks (endpoints, plane points, plane origin, anterior     *)
(* reference) placed: a deletion leaves no geodesic of the deleted         *)
(* landmark in the store.                                                  *)
C26_StoredCurvesHaveTheirLandmarks ==
    \A k \in DOMAIN geodesic_lines :
        DOMAIN geodesic_lines[k].from \subseteq DOMAIN landmarks

(* C27: no stored geodesic is stale: each one was computed from the        *)
(* positions its placed defining landmarks have now.                       *)
C27_NoStoredCurveIsStale ==
    \A k \in DOMAIN geodesic_lines :
        \A l \in DOMAIN geodesic_lines[k].from \cap DOMAIN landmarks :
            geodesic_lines[k].from[l] = landmarks[l]

(* C28: _update_geodesics never raises, whatever landmarks are placed and  *)
(* in whatever order: no click ends in an exception.                       *)
C28_UpdateNeverRaises == ~trial.raised

(* C29: however many show events arrive, the click observer is registered  *)
(* at most once and the initial file is loaded at most once, so one click  *)
(* runs _set_landmark_point once.                                          *)
C29_InitializationTakesEffectOnce ==
    /\ trial.observers <= 1
    /\ trial.loads <= 1
    /\ trial.placed <= 1

(***************************************************************************)
(* The boundary pass under a given visiting order: upward is the order by  *)
(* rising vertex id, the other one by falling id.                          *)
(***************************************************************************)
RECURSIVE VisitOrder(_, _)
VisitOrder(S, upward) ==
    IF S = {} THEN << >>
    ELSE LET x == IF upward THEN SetMin(S) ELSE SetMax(S)
         IN  <<x>> \o VisitOrder(S \ {x}, upward)

HealedIn(upward) == AssignLoop(VisitOrder(call.boundary, upward), 1, call.painted, << >>).ids

(* C30: the healed label array is the same for every order in which the    *)
(* boundary vertices are visited: it is a function of the region labels,   *)
(* the adjacency and the boundary set only.                                *)
C30_HealedLabelsSameForEveryOrder ==
    (call.segment_ids # NoArray /\ call.boundary # {}) =>
        /\ HealedIn(TRUE) = call.segment_ids
        /\ HealedIn(FALSE) = call.segment_ids

====
